---- MODULE Spec2Model ----
(***************************************************************************)
(* Verification model of the HDT simulator core (src/index.tsx):           *)
(*   simulate_sx_stage, prescriptive_setpoint_optimizer,                   *)
(*   check_th_u_compliance.                                                *)
(*                                                                         *)
(* A JavaScript number is modelled as a record [k, n, d]:                  *)
(*   k = "num"   the exact rational n/d (d > 0, lowest terms)              *)
(*   k = "nan"   NaN                                                       *)
(*   k = "inf"   +Infinity (n = 1) or -Infinity (n = -1)                   *)
(*   k = "undef" undefined (a missing map key, an omitted argument)        *)
(* Finite values are exact rationals: the inputs are drawn from short      *)
(* decimal grids, on which the error of binary64 arithmetic is many orders *)
(* of magnitude below the 1e-4 / 1e-2 resolution the code rounds to.       *)
(***************************************************************************)
EXTENDS Integers, Sequences, FiniteSets, TLC

----------------------------------------------------------------------------
(* Numbers *)

Abs(a) == IF a < 0 THEN -a ELSE a

Sign(a) == IF a < 0 THEN -1 ELSE IF a > 0 THEN 1 ELSE 0

RECURSIVE GCD(_, _)
GCD(a, b) == IF b = 0 THEN a ELSE GCD(b, a % b)

Q(n, d) ==
  LET g == GCD(Abs(n), d)
  IN  [k |-> "num", n |-> n \div g, d |-> d \div g]

NaN == [k |-> "nan", n |-> 0, d |-> 1]

PosInf == [k |-> "inf", n |-> 1, d |-> 1]

NegInf == [k |-> "inf", n |-> -1, d |-> 1]

Undefined == [k |-> "undef", n |-> 0, d |-> 1]

Zero == Q(0, 1)

IsNum(x) == x.k = "num"

IsInf(x) == x.k = "inf"

NumberIsNaN(x) == x.k = "nan"

Neg(x) == [x EXCEPT !.n = -x.n]

\* a + b
Add(a, b) ==
  IF ~(a.k \in {"num", "inf"}) \/ ~(b.k \in {"num", "inf"}) THEN NaN
  ELSE IF IsInf(a) /\ IsInf(b) THEN (IF a.n = b.n THEN a ELSE NaN)
  ELSE IF IsInf(a) THEN a
  ELSE IF IsInf(b) THEN b
  ELSE LET g == GCD(a.d, b.d)
           den == (a.d \div g) * b.d
           whole == (a.n \div a.d) + (b.n \div b.d)
           frac == (a.n % a.d) * (b.d \div g) + (b.n % b.d) * (a.d \div g)
       IN  Q(whole * den + frac, den)

\* a - b
Sub(a, b) == Add(a, Neg(b))

\* a * b
Mul(a, b) ==
  IF ~(a.k \in {"num", "inf"}) \/ ~(b.k \in {"num", "inf"}) THEN NaN
  ELSE IF IsInf(a) \/ IsInf(b)
       THEN (IF a.n = 0 \/ b.n = 0 THEN NaN
             ELSE IF Sign(a.n) = Sign(b.n) THEN PosInf ELSE NegInf)
  ELSE LET g1 == GCD(Abs(a.n), b.d)
           g2 == GCD(Abs(b.n), a.d)
       IN  Q((a.n \div g1) * (b.n \div g2), (a.d \div g2) * (b.d \div g1))

\* a / b
Div(a, b) ==
  IF ~(a.k \in {"num", "inf"}) \/ ~(b.k \in {"num", "inf"}) THEN NaN
  ELSE IF IsInf(a) /\ IsInf(b) THEN NaN
  ELSE IF IsInf(a) THEN (IF Sign(a.n) * Sign(b.n) < 0 THEN NegInf ELSE PosInf)
  ELSE IF IsInf(b) THEN Zero
  ELSE IF b.n = 0 THEN (IF a.n = 0 THEN NaN
                        ELSE IF a.n > 0 THEN PosInf ELSE NegInf)
  ELSE LET g1 == GCD(Abs(a.n), Abs(b.n))
           g2 == GCD(b.d, a.d)
       IN  Q((a.n \div g1) * (b.d \div g2) * Sign(b.n),
             (a.d \div g2) * (Abs(b.n) \div g1))

\* r1/d1 < r2/d2 for proper fractions (0 <= r < d), compared through their
\* reciprocals so that no product is formed
RECURSIVE FracLt(_, _, _, _)
FracLt(r1, d1, r2, d2) ==
  IF r2 = 0 THEN FALSE
  ELSE IF r1 = 0 THEN TRUE
  ELSE \/ (d2 \div r2) < (d1 \div r1)
       \/ /\ (d2 \div r2) = (d1 \div r1)
          /\ FracLt(d2 % r2, r2, d1 % r1, r1)

\* a < b
Lt(a, b) ==
  IF ~(a.k \in {"num", "inf"}) \/ ~(b.k \in {"num", "inf"}) THEN FALSE
  ELSE IF IsInf(a) THEN a.n < 0 /\ ~(IsInf(b) /\ b.n < 0)
  ELSE IF IsInf(b) THEN b.n > 0
  ELSE \/ (a.n \div a.d) < (b.n \div b.d)
       \/ /\ (a.n \div a.d) = (b.n \div b.d)
          /\ FracLt(a.n % a.d, a.d, b.n % b.d, b.d)

\* a > b
Gt(a, b) == Lt(b, a)

\* Math.max(a, b)
MathMax(a, b) ==
  IF ~(a.k \in {"num", "inf"}) \/ ~(b.k \in {"num", "inf"}) THEN NaN
  ELSE IF Lt(a, b) THEN b ELSE a

\* Math.min(a, b)
MathMin(a, b) ==
  IF ~(a.k \in {"num", "inf"}) \/ ~(b.k \in {"num", "inf"}) THEN NaN
  ELSE IF Lt(b, a) THEN b ELSE a

\* x || 0 : undefined, NaN and 0 are falsy
OrZero(x) == IF x.k \in {"undef", "nan"} \/ (IsNum(x) /\ x.n = 0) THEN Zero ELSE x

\* a default parameter value applies when the argument is undefined
DefaultArg(x, dflt) == IF x.k = "undef" THEN dflt ELSE x

RECURSIVE Pow10(_)
Pow10(digits) == IF digits = 0 THEN 1 ELSE 10 * Pow10(digits - 1)

\* the first `digits` decimals of rest / d (rest < d) and the remainder left
RECURSIVE FracDigits(_, _, _)
FracDigits(rest, d, digits) ==
  IF digits = 0 THEN <<0, rest>>
  ELSE LET t == rest * 10
           r == FracDigits(t % d, d, digits - 1)
       IN  <<(t \div d) * Pow10(digits - 1) + r[1], r[2]>>

\* mutant: the decimals beyond `digits` are cut off instead of rounded
ToFixed_Truncate(x, digits) ==
  IF ~IsNum(x) THEN x
  ELSE LET p == Pow10(digits)
           whole == Abs(x.n) \div x.d
           frac == FracDigits(Abs(x.n) % x.d, x.d, digits)
       IN  Q(Sign(x.n) * (whole * p + frac[1]), p)

\* parseFloat(x.toFixed(digits)): Number.prototype.toFixed picks the integer
\* n with n / 10^digits closest to |x|, the larger n on a tie, and keeps the
\* sign; NaN and the infinities print as themselves and parse back.
ToFixed(x, digits) ==
  IF ~IsNum(x) THEN x
  ELSE LET p == Pow10(digits)
           whole == Abs(x.n) \div x.d
           frac == FracDigits(Abs(x.n) % x.d, x.d, digits)
           m == whole * p + frac[1] + (IF 2 * frac[2] >= x.d THEN 1 ELSE 0)
       IN  Q(Sign(x.n) * m, p)

----------------------------------------------------------------------------
(* Module 1: simulate_sx_stage *)

targetElements == <<"Nd", "Fe", "Th", "U">>

\* obj[key]: undefined when the key is missing
Get(obj, key) == IF key \in DOMAIN obj THEN obj[key] ELSE Undefined

EmptyObj == [key \in {} |-> Zero]

\* obj[key] = val
Put(obj, key, val) ==
  [x \in (DOMAIN obj) \cup {key} |-> IF x = key THEN val ELSE obj[x]]

\* mutant: the phase ratio is not floored to 1e-4
SafeR_NoFloor(phase_ratio_) ==
  IF NumberIsNaN(phase_ratio_) THEN Q(1, 1) ELSE phase_ratio_

SafeR(phase_ratio_) ==
  LET rVal == IF NumberIsNaN(phase_ratio_) THEN Q(1, 1) ELSE phase_ratio_
  IN  MathMax(Q(1, 10000), rVal)

\* mutant: the denominator ignores the phase ratio (1 + D)
StageEl_DenomNoRatio(aq_in_conc_, org_in_conc_, safeR, D_values_, el) ==
  LET Cin_aq == MathMax(Zero, OrZero(Get(aq_in_conc_, el)))
      Cin_org == MathMax(Zero, OrZero(Get(org_in_conc_, el)))
      D == MathMax(Zero, OrZero(Get(D_values_, el)))
      denominator == Add(Q(1, 1), D)
      Cout_aq == Div(Add(Cin_aq, Mul(safeR, Cin_org)), denominator)
      Cout_org == Mul(D, Cout_aq)
  IN  [aq |-> ToFixed(Cout_aq, 4), org |-> ToFixed(Cout_org, 4)]

\* mutant: every species is extracted with the distribution coefficient of Nd
StageEl_SharedD(aq_in_conc_, org_in_conc_, safeR, D_values_, el) ==
  LET Cin_aq == MathMax(Zero, OrZero(Get(aq_in_conc_, el)))
      Cin_org == MathMax(Zero, OrZero(Get(org_in_conc_, el)))
      D == MathMax(Zero, OrZero(Get(D_values_, "Nd")))
      denominator == Add(Q(1, 1), Mul(safeR, D))
      Cout_aq == Div(Add(Cin_aq, Mul(safeR, Cin_org)), denominator)
      Cout_org == Mul(D, Cout_aq)
  IN  [aq |-> ToFixed(Cout_aq, 4), org |-> ToFixed(Cout_org, 4)]

\* mutant: the organic value is computed from the already rounded aqueous value
StageEl_RoundFirst(aq_in_conc_, org_in_conc_, safeR, D_values_, el) ==
  LET Cin_aq == MathMax(Zero, OrZero(Get(aq_in_conc_, el)))
      Cin_org == MathMax(Zero, OrZero(Get(org_in_conc_, el)))
      D == MathMax(Zero, OrZero(Get(D_values_, el)))
      denominator == Add(Q(1, 1), Mul(safeR, D))
      Cout_aq == ToFixed(Div(Add(Cin_aq, Mul(safeR, Cin_org)), denominator), 4)
      Cout_org == Mul(D, Cout_aq)
  IN  [aq |-> Cout_aq, org |-> ToFixed(Cout_org, 4)]

\* body of the forEach callback for one element
StageEl(aq_in_conc_, org_in_conc_, safeR, D_values_, el) ==
  LET Cin_aq == MathMax(Zero, OrZero(Get(aq_in_conc_, el)))
      Cin_org == MathMax(Zero, OrZero(Get(org_in_conc_, el)))
      D == MathMax(Zero, OrZero(Get(D_values_, el)))
      denominator == Add(Q(1, 1), Mul(safeR, D))
      Cout_aq == Div(Add(Cin_aq, Mul(safeR, Cin_org)), denominator)
      Cout_org == Mul(D, Cout_aq)
  IN  [aq |-> ToFixed(Cout_aq, 4), org |-> ToFixed(Cout_org, 4)]

RECURSIVE StageLoop(_, _, _, _, _, _)
StageLoop(aq_in_conc_, org_in_conc_, safeR, D_values_, k, acc) ==
  IF k > Len(targetElements) THEN acc
  ELSE LET el == targetElements[k]
           r == StageEl(aq_in_conc_, org_in_conc_, safeR, D_values_, el)
       IN  StageLoop(aq_in_conc_, org_in_conc_, safeR, D_values_, k + 1,
                     [aqOut |-> Put(acc.aqOut, el, r.aq),
                      orgOut |-> Put(acc.orgOut, el, r.org)])

simulate_sx_stage(aq_in_conc_, org_in_conc_, phase_ratio_, D_values_) ==
  StageLoop(aq_in_conc_, org_in_conc_, SafeR(phase_ratio_), D_values_, 1,
            [aqOut |-> EmptyObj, orgOut |-> EmptyObj])

----------------------------------------------------------------------------
(* Module 2: prescriptive_setpoint_optimizer *)

ActionMaintain == "Maintain pH"

ActionRaise == "Increase Acid/Base Flow (Raise pH)"

ActionLower == "Adjust Acid/Base Flow (Lower pH)"

\* mutant: the noise leaks into the setpoint
prescriptive_setpoint_optimizer_NoisySetpoint(current_pH_, target_optimal_pH_, deterministic_, random) ==
  LET target == DefaultArg(target_optimal_pH_, Q(9, 5))
      det == deterministic_
      cPH == IF NumberIsNaN(current_pH_) THEN Zero ELSE current_pH_
      tPH == IF NumberIsNaN(target) THEN Q(9, 5) ELSE target
      noise == IF det THEN Zero ELSE Mul(Sub(random, Q(1, 2)), Q(1, 20))
      d == Sub(cPH, tPH)
      efficiency == Add(Sub(Q(4, 5), Mul(Q(1, 5), Mul(d, d))), noise)
      delta == Sub(tPH, cPH)
      correction_step == Mul(delta, Q(1, 2))
      new_pH_setpoint == ToFixed(Add(Add(cPH, correction_step), noise), 2)
      action == IF Gt(correction_step, Q(1, 100)) THEN ActionRaise
                ELSE IF Lt(correction_step, Q(-1, 100)) THEN ActionLower
                ELSE ActionMaintain
  IN  [new_pH_setpoint |-> new_pH_setpoint,
       action |-> action,
       predicted_efficiency |-> MathMax(Zero, MathMin(Q(1, 1), efficiency))]

\* mutant: the dead-band excludes its end points (>= 0.01, <= -0.01)
prescriptive_setpoint_optimizer_ClosedBand(current_pH_, target_optimal_pH_, deterministic_, random) ==
  LET target == DefaultArg(target_optimal_pH_, Q(9, 5))
      det == deterministic_
      cPH == IF NumberIsNaN(current_pH_) THEN Zero ELSE current_pH_
      tPH == IF NumberIsNaN(target) THEN Q(9, 5) ELSE target
      noise == IF det THEN Zero ELSE Mul(Sub(random, Q(1, 2)), Q(1, 20))
      d == Sub(cPH, tPH)
      efficiency == Add(Sub(Q(4, 5), Mul(Q(1, 5), Mul(d, d))), noise)
      delta == Sub(tPH, cPH)
      correction_step == Mul(delta, Q(1, 2))
      new_pH_setpoint == ToFixed(Add(cPH, correction_step), 2)
      action == IF ~Lt(correction_step, Q(1, 100)) THEN ActionRaise
                ELSE IF ~Gt(correction_step, Q(-1, 100)) THEN ActionLower
                ELSE ActionMaintain
  IN  [new_pH_setpoint |-> new_pH_setpoint,
       action |-> action,
       predicted_efficiency |-> MathMax(Zero, MathMin(Q(1, 1), efficiency))]

\* mutant: the deterministic flag is ignored, noise is always added
prescriptive_setpoint_optimizer_NoiseAlways(current_pH_, target_optimal_pH_, deterministic_, random) ==
  LET target == DefaultArg(target_optimal_pH_, Q(9, 5))
      det == deterministic_
      cPH == IF NumberIsNaN(current_pH_) THEN Zero ELSE current_pH_
      tPH == IF NumberIsNaN(target) THEN Q(9, 5) ELSE target
      noise == IF FALSE THEN Zero ELSE Mul(Sub(random, Q(1, 2)), Q(1, 20))
      d == Sub(cPH, tPH)
      efficiency == Add(Sub(Q(4, 5), Mul(Q(1, 5), Mul(d, d))), noise)
      delta == Sub(tPH, cPH)
      correction_step == Mul(delta, Q(1, 2))
      new_pH_setpoint == ToFixed(Add(cPH, correction_step), 2)
      action == IF Gt(correction_step, Q(1, 100)) THEN ActionRaise
                ELSE IF Lt(correction_step, Q(-1, 100)) THEN ActionLower
                ELSE ActionMaintain
  IN  [new_pH_setpoint |-> new_pH_setpoint,
       action |-> action,
       predicted_efficiency |-> MathMax(Zero, MathMin(Q(1, 1), efficiency))]

\* mutant: NaN arguments are not replaced by their defaults
prescriptive_setpoint_optimizer_NoNaNGuard(current_pH_, target_optimal_pH_, deterministic_, random) ==
  LET target == DefaultArg(target_optimal_pH_, Q(9, 5))
      det == deterministic_
      cPH == current_pH_
      tPH == target
      noise == IF det THEN Zero ELSE Mul(Sub(random, Q(1, 2)), Q(1, 20))
      d == Sub(cPH, tPH)
      efficiency == Add(Sub(Q(4, 5), Mul(Q(1, 5), Mul(d, d))), noise)
      delta == Sub(tPH, cPH)
      correction_step == Mul(delta, Q(1, 2))
      new_pH_setpoint == ToFixed(Add(cPH, correction_step), 2)
      action == IF Gt(correction_step, Q(1, 100)) THEN ActionRaise
                ELSE IF Lt(correction_step, Q(-1, 100)) THEN ActionLower
                ELSE ActionMaintain
  IN  [new_pH_setpoint |-> new_pH_setpoint,
       action |-> action,
       predicted_efficiency |-> MathMax(Zero, MathMin(Q(1, 1), efficiency))]

\* random is the value returned by Math.random(), in [0, 1)
\* mutant: the correction step is not added to the setpoint
prescriptive_setpoint_optimizer_NoCorrection(current_pH_, target_optimal_pH_, deterministic_, random) ==
  LET target == DefaultArg(target_optimal_pH_, Q(9, 5))
      det == deterministic_
      cPH == IF NumberIsNaN(current_pH_) THEN Zero ELSE current_pH_
      tPH == IF NumberIsNaN(target) THEN Q(9, 5) ELSE target
      noise == IF det THEN Zero ELSE Mul(Sub(random, Q(1, 2)), Q(1, 20))
      d == Sub(cPH, tPH)
      efficiency == Add(Sub(Q(4, 5), Mul(Q(1, 5), Mul(d, d))), noise)
      delta == Sub(tPH, cPH)
      correction_step == Mul(delta, Q(1, 2))
      new_pH_setpoint == ToFixed(cPH, 2)
      action == IF Gt(correction_step, Q(1, 100)) THEN ActionRaise
                ELSE IF Lt(correction_step, Q(-1, 100)) THEN ActionLower
                ELSE ActionMaintain
  IN  [new_pH_setpoint |-> new_pH_setpoint,
       action |-> action,
       predicted_efficiency |-> MathMax(Zero, MathMin(Q(1, 1), efficiency))]

prescriptive_setpoint_optimizer(current_pH_, target_optimal_pH_, deterministic_, random) ==
  LET target == DefaultArg(target_optimal_pH_, Q(9, 5))
      det == deterministic_
      cPH == IF NumberIsNaN(current_pH_) THEN Zero ELSE current_pH_
      tPH == IF NumberIsNaN(target) THEN Q(9, 5) ELSE target
      noise == IF det THEN Zero ELSE Mul(Sub(random, Q(1, 2)), Q(1, 20))
      d == Sub(cPH, tPH)
      efficiency == Add(Sub(Q(4, 5), Mul(Q(1, 5), Mul(d, d))), noise)
      delta == Sub(tPH, cPH)
      correction_step == Mul(delta, Q(1, 2))
      new_pH_setpoint == ToFixed(Add(cPH, correction_step), 2)
      action == IF Gt(correction_step, Q(1, 100)) THEN ActionRaise
                ELSE IF Lt(correction_step, Q(-1, 100)) THEN ActionLower
                ELSE ActionMaintain
  IN  [new_pH_setpoint |-> new_pH_setpoint,
       action |-> action,
       predicted_efficiency |-> MathMax(Zero, MathMin(Q(1, 1), efficiency))]

----------------------------------------------------------------------------
(* Module 3: check_th_u_compliance *)

FindingMeets == "Meets NCMM Th/U safety requirements."

FindingExceeds == "EXCEEDS Regulatory Limit. Adjust flowsheet."

\* mutant: a total equal to the limit passes (<=)
check_th_u_compliance_Le(th_conc_, u_conc_, limit_) ==
  LET lim == DefaultArg(limit_, Q(1, 10))
      safeTh == MathMax(Zero, OrZero(th_conc_))
      safeU == MathMax(Zero, OrZero(u_conc_))
      safeLimit == IF NumberIsNaN(lim) THEN Q(1, 10) ELSE lim
      total == Add(safeTh, safeU)
      is_compliant == Lt(total, safeLimit) \/ total = safeLimit
  IN  [total_conc_gl |-> ToFixed(total, 4),
       is_compliant |-> is_compliant,
       finding |-> IF is_compliant THEN FindingMeets ELSE FindingExceeds]

\* mutant: negative concentrations are not clamped
check_th_u_compliance_NoClamp(th_conc_, u_conc_, limit_) ==
  LET lim == DefaultArg(limit_, Q(1, 10))
      safeTh == OrZero(th_conc_)
      safeU == OrZero(u_conc_)
      safeLimit == IF NumberIsNaN(lim) THEN Q(1, 10) ELSE lim
      total == Add(safeTh, safeU)
      is_compliant == Lt(total, safeLimit)
  IN  [total_conc_gl |-> ToFixed(total, 4),
       is_compliant |-> is_compliant,
       finding |-> IF is_compliant THEN FindingMeets ELSE FindingExceeds]

\* mutant: the total is reported without rounding to 4 decimals
check_th_u_compliance_Unrounded(th_conc_, u_conc_, limit_) ==
  LET lim == DefaultArg(limit_, Q(1, 10))
      safeTh == MathMax(Zero, OrZero(th_conc_))
      safeU == MathMax(Zero, OrZero(u_conc_))
      safeLimit == IF NumberIsNaN(lim) THEN Q(1, 10) ELSE lim
      total == Add(safeTh, safeU)
      is_compliant == Lt(total, safeLimit)
  IN  [total_conc_gl |-> total,
       is_compliant |-> is_compliant,
       finding |-> IF is_compliant THEN FindingMeets ELSE FindingExceeds]

\* mutant: the verdict is taken on the sum before the clamp to 0
check_th_u_compliance_VerdictOnRaw(th_conc_, u_conc_, limit_) ==
  LET lim == DefaultArg(limit_, Q(1, 10))
      safeTh == MathMax(Zero, OrZero(th_conc_))
      safeU == MathMax(Zero, OrZero(u_conc_))
      safeLimit == IF NumberIsNaN(lim) THEN Q(1, 10) ELSE lim
      total == Add(safeTh, safeU)
      is_compliant == Lt(Add(OrZero(th_conc_), OrZero(u_conc_)), safeLimit)
  IN  [total_conc_gl |-> ToFixed(total, 4),
       is_compliant |-> is_compliant,
       finding |-> IF is_compliant THEN FindingMeets ELSE FindingExceeds]

check_th_u_compliance(th_conc_, u_conc_, limit_) ==
  LET lim == DefaultArg(limit_, Q(1, 10))
      safeTh == MathMax(Zero, OrZero(th_conc_))
      safeU == MathMax(Zero, OrZero(u_conc_))
      safeLimit == IF NumberIsNaN(lim) THEN Q(1, 10) ELSE lim
      total == Add(safeTh, safeU)
      is_compliant == Lt(total, safeLimit)
  IN  [total_conc_gl |-> ToFixed(total, 4),
       is_compliant |-> is_compliant,
       finding |-> IF is_compliant THEN FindingMeets ELSE FindingExceeds]

----------------------------------------------------------------------------
(* Unit Test Engine *)

\* Math.abs
MathAbs(x) == IF x.k \in {"num", "inf"} /\ x.n < 0 THEN Neg(x) ELSE x

\* String.prototype.includes on the action texts, word by word
StringIncludes(str, word) ==
  word \in (CASE str = ActionMaintain -> {"Maintain", "pH"}
              [] str = ActionRaise -> {"Increase", "Acid/Base", "Flow", "Raise", "pH"}
              [] str = ActionLower -> {"Adjust", "Acid/Base", "Flow", "Lower", "pH"}
              [] OTHER -> {})

\* JSON.stringify(v): the JSON text of v
JSONStringify(v) == [json |-> v]

\* mutant: the helper keeps the last record only
assert_KeepLast(results_, module, name, condition, expected, actual) ==
  <<[module |-> module, name |-> name, passed |-> condition,
     expected |-> JSONStringify(expected), actual |-> JSONStringify(actual)]>>

\* the helper of runAllTests: results.push({...})
assert(results_, module, name, condition, expected, actual) ==
  Append(results_,
         [module |-> module, name |-> name, passed |-> condition,
          expected |-> JSONStringify(expected), actual |-> JSONStringify(actual)])

Obj1(key, val) == [x \in {key} |-> val]

\* the value of a block whose const declarations are the binders of S
The(S) == CHOOSE r \in S : TRUE

\* the module and name arguments of the assert calls, in program order
CaseNames ==
  <<[module |-> "Thermodynamic Core", name |-> "Basic Separation (D=1, R=1)"],
    [module |-> "Thermodynamic Core", name |-> "High Extraction (D=9)"],
    [module |-> "Thermodynamic Core", name |-> "Mass Balance Conservation"],
    [module |-> "Thermodynamic Core", name |-> "Missing Input Key Handling"],
    [module |-> "Thermodynamic Core", name |-> "Negative Input Clamping"],
    [module |-> "AI Optimizer", name |-> "Setpoint Logic (Raise pH)"],
    [module |-> "AI Optimizer", name |-> "Action Text (Raise)"],
    [module |-> "AI Optimizer", name |-> "Setpoint Logic (Lower pH)"],
    [module |-> "AI Optimizer", name |-> "Action Text (Lower)"],
    [module |-> "AI Optimizer", name |-> "Efficiency Bounds (0-1)"],
    [module |-> "Compliance Simulator", name |-> "Compliant Case (< Limit)"],
    [module |-> "Compliance Simulator", name |-> "Non-Compliant Case (> Limit)"],
    [module |-> "Compliance Simulator", name |-> "Boundary Case (Equal to Limit)"],
    [module |-> "Compliance Simulator", name |-> "Floating Point Precision Display"],
    [module |-> "Compliance Simulator", name |-> "Negative Input Safety"]>>

NumCases == Len(CaseNames)

\* position of the assertion that follows the loop
LoopCase == CHOOSE n \in DOMAIN CaseNames : CaseNames[n].name = "Efficiency Bounds (0-1)"

\* 1.1 Basic Calculation: condition, expected and actual of its assert call
Case11 ==
  The({
    [condition |-> Get(res1.aqOut, "Nd") = Q(5, 1) /\ Get(res1.orgOut, "Nd") = Q(5, 1),
     expected |-> "Aq:5, Org:5",
     actual |-> <<"Aq:", Get(res1.aqOut, "Nd"), ", Org:", Get(res1.orgOut, "Nd")>>] :
      res1 \in {simulate_sx_stage(Obj1("Nd", Q(10, 1)), EmptyObj, Q(1, 1), Obj1("Nd", Q(1, 1)))}})

\* 1.2 High Extraction
Case12 ==
  The({
    [condition |-> Get(res2.aqOut, "Nd") = Q(1, 1) /\ Get(res2.orgOut, "Nd") = Q(9, 1),
     expected |-> "Aq:1, Org:9",
     actual |-> <<"Aq:", Get(res2.aqOut, "Nd"), ", Org:", Get(res2.orgOut, "Nd")>>] :
      res2 \in {simulate_sx_stage(Obj1("Nd", Q(10, 1)), EmptyObj, Q(1, 1), Obj1("Nd", Q(9, 1)))}})

\* 1.3 Mass Balance Check
Case13 ==
  LET aqInMass == Q(100, 1)
      R == Q(2, 1)
  IN  The({
        [condition |-> Lt(MathAbs(Sub(massOut, aqInMass)), Q(1, 10)),
         expected |-> <<"Total Mass ~", aqInMass>>,
         actual |-> <<"Total Mass ", massOut>>] :
          massOut \in {Add(Get(res3.aqOut, "Nd"), Mul(R, Get(res3.orgOut, "Nd"))) :
            res3 \in {simulate_sx_stage(Obj1("Nd", aqInMass), EmptyObj, R, Obj1("Nd", Q(5, 2)))}}})

\* 1.4 Missing Keys Handling
Case14 ==
  The({
    [condition |-> Get(res4.aqOut, "Th") = Zero,
     expected |-> "Th AqOut: 0",
     actual |-> <<"Th AqOut: ", Get(res4.aqOut, "Th")>>] :
      res4 \in {simulate_sx_stage(Obj1("Nd", Q(5, 1)), EmptyObj, Q(1, 1), Obj1("Nd", Q(1, 1)))}})

\* 1.5 Robustness Negative Input
Case15 ==
  The({
    [condition |-> Get(res5.aqOut, "Nd") = Zero,
     expected |-> "AqOut: 0",
     actual |-> <<"AqOut: ", Get(res5.aqOut, "Nd")>>] :
      res5 \in {simulate_sx_stage(Obj1("Nd", Q(-10, 1)), EmptyObj, Q(1, 1), Obj1("Nd", Q(1, 1)))}})

\* 2.1 Raise pH Logic (the random argument is not read: deterministic = true)
Case21Setpoint ==
  The({
    [condition |-> opt1.new_pH_setpoint = Q(3, 2),
     expected |-> "Setpoint: 1.5",
     actual |-> <<"Setpoint: ", opt1.new_pH_setpoint>>] :
      opt1 \in {prescriptive_setpoint_optimizer(Q(1, 1), Q(2, 1), TRUE, Zero)}})

Case21Action ==
  The({
    [condition |-> StringIncludes(opt1.action, "Increase"),
     expected |-> "Contains \"Increase\"",
     actual |-> opt1.action] :
      opt1 \in {prescriptive_setpoint_optimizer(Q(1, 1), Q(2, 1), TRUE, Zero)}})

\* 2.2 Lower pH Logic
Case22Setpoint ==
  The({
    [condition |-> opt2.new_pH_setpoint = Q(3, 2),
     expected |-> "Setpoint: 1.5",
     actual |-> <<"Setpoint: ", opt2.new_pH_setpoint>>] :
      opt2 \in {prescriptive_setpoint_optimizer(Q(2, 1), Q(1, 1), TRUE, Zero)}})

Case22Action ==
  The({
    [condition |-> StringIncludes(opt2.action, "Lower")
                   \/ StringIncludes(opt2.action, "Adjust"),
     expected |-> "Contains \"Lower/Adjust\"",
     actual |-> opt2.action] :
      opt2 \in {prescriptive_setpoint_optimizer(Q(2, 1), Q(1, 1), TRUE, Zero)}})

\* 2.3 Efficiency Bounds: the assertion after the loop
Case23(inBounds_) ==
  [condition |-> inBounds_,
   expected |-> "All efficient values between 0 and 1",
   actual |-> IF inBounds_ THEN "Pass" ELSE "Fail"]

\* number of iterations of the loop of 2.3
LoopCount == 50

\* body of the loop of 2.3 for one Math.random() sample
LoopBody(inBounds_, random) ==
  The({
    (IF Lt(res.predicted_efficiency, Zero) \/ Gt(res.predicted_efficiency, Q(1, 1))
     THEN FALSE ELSE inBounds_) :
      res \in {prescriptive_setpoint_optimizer(Q(9, 5), Q(9, 5), FALSE, random)}})

\* 3.1 Compliant Case
Case31 ==
  The({
    [condition |-> comp1.is_compliant = TRUE,
     expected |-> "Compliant: true",
     actual |-> <<"Compliant: ", comp1.is_compliant>>] :
      comp1 \in {check_th_u_compliance(Q(1, 25), Q(1, 20), Q(1, 10))}})

\* 3.2 Non-Compliant Case
Case32 ==
  The({
    [condition |-> comp2.is_compliant = FALSE,
     expected |-> "Compliant: false",
     actual |-> <<"Compliant: ", comp2.is_compliant>>] :
      comp2 \in {check_th_u_compliance(Q(3, 50), Q(1, 20), Q(1, 10))}})

\* 3.3 Boundary Case (Equal to limit)
Case33 ==
  The({
    [condition |-> comp3.is_compliant = FALSE,
     expected |-> "Compliant: false (Strict <)",
     actual |-> <<"Compliant: ", comp3.is_compliant>>] :
      comp3 \in {check_th_u_compliance(Q(1, 20), Q(1, 20), Q(1, 10))}})

\* 3.4 Floating Point Summation
Case34 ==
  The({
    [condition |-> comp4.total_conc_gl = Q(3, 10),
     expected |-> "Total: 0.3",
     actual |-> <<"Total: ", comp4.total_conc_gl>>] :
      comp4 \in {check_th_u_compliance(Q(1, 10), Q(1, 5), Q(1, 2))}})

\* 3.5 Negative input safety
Case35 ==
  The({
    [condition |-> comp5.total_conc_gl = Q(1, 5),
     expected |-> "Total: 0.2 (ignores -5)",
     actual |-> <<"Total: ", comp5.total_conc_gl>>] :
      comp5 \in {check_th_u_compliance(Q(-5, 1), Q(1, 5), Q(1, 2))}})

\* the assert call at position n of runAllTests
Battery(n, inBounds_) ==
  CASE n = 1 -> Case11 [] n = 2 -> Case12 [] n = 3 -> Case13
    [] n = 4 -> Case14 [] n = 5 -> Case15
    [] n = 6 -> Case21Setpoint [] n = 7 -> Case21Action
    [] n = 8 -> Case22Setpoint [] n = 9 -> Case22Action
    [] n = 10 -> Case23(inBounds_)
    [] n = 11 -> Case31 [] n = 12 -> Case32 [] n = 13 -> Case33
    [] n = 14 -> Case34 [] n = 15 -> Case35

\* TestRunnerModal: results.filter(r => r.passed).length
passedCount(results_) == Cardinality({n \in DOMAIN results_ : results_[n].passed})

\* TestRunnerModal: passedCount === results.length
allPassed(results_) == passedCount(results_) = Len(results_)

----------------------------------------------------------------------------
(* Objects allocated by a call *)

\* mutant: every object literal evaluates to the same object
NewRef_Shared(h) == 1

\* the reference of a newly allocated object: one no earlier object holds
NewRef(h) == Cardinality(DOMAIN h) + 1

\* the store h with object obj at reference r
Store(h, r, obj) == [x \in (DOMAIN h) \cup {r} |-> IF x = r THEN obj ELSE h[x]]

----------------------------------------------------------------------------
(* App: the dashboard component that wires the three modules *)

\* mutant: the organic outlet is routed into the compliance check
runSimulation_OrgStream(aqIn_, orgIn_, phaseRatio_, dValues_, currentPH_, targetPH_, regLimit_, random) ==
  LET sim == simulate_sx_stage(aqIn_, orgIn_, phaseRatio_, dValues_)
      thConc == OrZero(Get(sim.orgOut, "Th"))
      uConc == OrZero(Get(sim.orgOut, "U"))
      comp == check_th_u_compliance(thConc, uConc, regLimit_)
      opt == prescriptive_setpoint_optimizer(currentPH_, targetPH_, FALSE, random)
  IN  [simulationResults |-> sim,
       complianceResults |-> comp,
       optimizationResults |-> opt]

\* the three values runSimulation hands to its state setters; the optimizer
\* is called with two arguments, so deterministic is false
runSimulation(aqIn_, orgIn_, phaseRatio_, dValues_, currentPH_, targetPH_, regLimit_, random) ==
  LET sim == simulate_sx_stage(aqIn_, orgIn_, phaseRatio_, dValues_)
      thConc == OrZero(Get(sim.aqOut, "Th"))
      uConc == OrZero(Get(sim.aqOut, "U"))
      comp == check_th_u_compliance(thConc, uConc, regLimit_)
      opt == prescriptive_setpoint_optimizer(currentPH_, targetPH_, FALSE, random)
  IN  [simulationResults |-> sim,
       complianceResults |-> comp,
       optimizationResults |-> opt]

\* new Date().toLocaleTimeString(): the reading of the clock to the second
toLocaleTimeString(ms) == [seconds |-> ms \div 1000]

\* the HistoryEntry captureSnapshot builds at time now
newEntry(now, aqIn_, phaseRatio_, currentPH_, targetPH_, comp, opt) ==
  [id |-> now,
   timestamp |-> toLocaleTimeString(now),
   inputs |-> [aqIn |-> aqIn_, phaseRatio |-> phaseRatio_,
               currentPH |-> currentPH_, targetPH |-> targetPH_],
   outputs |-> [th_u_total |-> comp.total_conc_gl,
                is_compliant |-> comp.is_compliant,
                efficiency |-> opt.predicted_efficiency]]

\* mutant: the new entry is put at the end of the history
PutFirst_Last(entry, prev) == Append(prev, entry)

\* setHistory(prev => [newEntry, ...prev])
PutFirst(entry, prev) == <<entry>> \o prev

----------------------------------------------------------------------------
(* State: one invocation of a core function, its arguments and its result *)

VARIABLES
  pc,                 \* "call" before the function has run, "done" after
  aq_in_conc, org_in_conc, phase_ratio, D_values,   \* arguments of simulate_sx_stage
  simRes,             \* its SimulationResult
  current_pH, target_optimal_pH, deterministic,     \* arguments of the optimizer
  rnd,                \* the Math.random() sample the optimizer call drew
  optRes,             \* its OptimizationResult
  th_conc, u_conc, limit,                           \* arguments of check_th_u_compliance
  compRes,            \* its ComplianceResult
  callLog,            \* the calls made so far, in order: function, arguments, result
  rngDraws,           \* the number of Math.random() samples consumed so far
  tpc,                \* position inside runAllTests: 0 when it is not running, else the next assertion
  results,            \* the results array of the running runAllTests
  i, inBounds,        \* loop counter and flag of the efficiency-bounds case
  sample,             \* the Math.random() sample of the last loop iteration
  runs,               \* the number of finished runs of runAllTests
  returned,           \* the results state of TestRunnerModal: the array of the last run
  calls,              \* per concurrent invocation: the function and its arguments
  frame,              \* per concurrent invocation: position and local variables
  heap,               \* the objects allocated by the invocations, by reference
  ret,                \* per concurrent invocation: the value it returned
  aqIn, orgIn, phaseRatio, dValues,                 \* App state: the simulation inputs
  currentPH, targetPH, regLimit,                    \* App state: optimizer and compliance inputs
  showTests, history, darkMode,                     \* App state: modal flag, snapshots, theme
  simulationResults, complianceResults, optimizationResults,   \* App state: computed results
  effectPending,      \* the runSimulation effect is scheduled and has not run yet
  effectDeps,         \* the dependency values of the last run of that effect
  clock,              \* the time, advanced by every handled UI event
  event               \* the App code that ran last

simVars == <<aq_in_conc, org_in_conc, phase_ratio, D_values, simRes>>

optVars == <<current_pH, target_optimal_pH, deterministic, rnd, optRes>>

compVars == <<th_conc, u_conc, limit, compRes>>

seqVars == <<callLog, rngDraws>>

testVars == <<tpc, results, i, inBounds, sample, runs, returned>>

concVars == <<calls, frame, heap, ret>>

leafVars == <<pc, simVars, optVars, compVars>>

inputVars == <<aqIn, orgIn, phaseRatio, dValues, currentPH, targetPH, regLimit>>

resultVars == <<simulationResults, complianceResults, optimizationResults>>

appVars == <<inputVars, resultVars, showTests, history, darkMode,
             effectPending, effectDeps, clock, event>>

vars == <<leafVars, seqVars, testVars, concVars, appVars>>

Null == [null |-> TRUE]

\* granularity of the Math.random() samples k / RndSteps, k in 0 .. RndSteps - 1
RndSteps == 4

RandomSamples == {Q(k, RndSteps) : k \in 0 .. RndSteps - 1} \cup {Q(9999, 10000)}

OtherKey == "La"

TrackedSet == {targetElements[k] : k \in 1 .. Len(targetElements)}

\* <<focus species, background>> of the input objects
Scenarios ==
  (TrackedSet \X {"none"}) \cup ({"Nd", "Th"} \X {"full", "extra"})

\* a Concentrations object: the focus species holds v (no key when v is
\* undefined); background "full" fills the other tracked species with fill,
\* background "extra" adds an untracked key
BuildObj(focus, v, bg, fill) ==
  LET keys == (IF v.k = "undef" THEN {} ELSE {focus})
              \cup (IF bg = "full" THEN TrackedSet \ {focus} ELSE {})
              \cup (IF bg = "extra" THEN {OtherKey} ELSE {})
  IN  [key \in keys |-> IF key = focus THEN v ELSE fill]

AqValues ==
  {Undefined, NaN, PosInf, Q(-10, 1), Zero, Q(7, 5), Q(10, 1), Q(100, 1)}

OrgValues == {Undefined, PosInf, Q(-10, 1), Zero, Q(5, 2)}

DValues == {Undefined, PosInf, Q(-1, 1), Zero, Q(1, 1), Q(5, 2), Q(9, 1)}

RatioValues ==
  {NaN, PosInf, Q(-1, 1), Zero, Q(1, 20000), Q(1, 10000), Q(1, 1), Q(2, 1),
   Q(10000, 1)}

PHValues ==
  {NaN, PosInf, NegInf, Q(-1, 1), Zero, Q(1, 1), Q(3, 2), Q(89, 50), Q(9, 5),
   Q(181, 100), Q(91, 50), Q(183, 100), Q(2, 1), Q(14, 1),
   Q(1781, 1000), Q(1783, 1000)}

ThUValues ==
  {NaN, PosInf, NegInf, Q(-5, 1), Zero, Q(1, 25), Q(1, 20),
   Q(3, 50), Q(1, 10), Q(1, 5), Q(2499, 25000)}

LimitValues == {Undefined, NaN, PosInf, Q(-1, 1), Zero, Q(1, 10), Q(1, 2)}

SimIdle ==
  /\ aq_in_conc = EmptyObj /\ org_in_conc = EmptyObj
  /\ phase_ratio = Q(1, 1) /\ D_values = EmptyObj
  /\ simRes = Null

OptIdle ==
  /\ current_pH = Zero /\ target_optimal_pH = Undefined
  /\ deterministic = TRUE /\ rnd = Zero
  /\ optRes = Null

CompIdle ==
  /\ th_conc = Zero /\ u_conc = Zero /\ limit = Undefined
  /\ compRes = Null

SeqIdle == callLog = <<>> /\ rngDraws = 0

TestsIdle ==
  /\ tpc = 0 /\ results = <<>> /\ i = 0 /\ inBounds = TRUE
  /\ sample = Zero /\ runs = 0 /\ returned = <<>>

ConcIdle == calls = <<>> /\ frame = <<>> /\ heap = <<>> /\ ret = <<>>

\* the useState initial values of App; the effect of the first render is due
AppIdle ==
  /\ aqIn = [el \in TrackedSet |->
               CASE el = "Nd" -> Q(5, 1) [] el = "Th" -> Q(1, 10)
                 [] el = "Fe" -> Q(1, 2) [] el = "U" -> Q(1, 50)]
  /\ orgIn = [el \in TrackedSet |-> Zero]
  /\ phaseRatio = Q(1, 1)
  /\ dValues = [el \in TrackedSet |->
                  CASE el = "Nd" -> Q(4, 5) [] el = "Th" -> Q(10, 1)
                    [] el = "Fe" -> Q(5, 1) [] el = "U" -> Q(12, 1)]
  /\ currentPH = Q(3, 2) /\ targetPH = Q(9, 5) /\ regLimit = Q(1, 10)
  /\ showTests = FALSE /\ history = <<>> /\ darkMode = FALSE
  /\ simulationResults = Null /\ complianceResults = Null
  /\ optimizationResults = Null
  /\ effectPending = TRUE /\ effectDeps = Null
  /\ clock = 0 /\ event = "mount"

\* --- simulate_sx_stage called on arbitrary arguments ---

InitSim ==
  /\ pc = "call"
  /\ \E sc \in Scenarios :
       /\ \E a \in AqValues : aq_in_conc = BuildObj(sc[1], a, sc[2], Q(1, 2))
       /\ \E o \in OrgValues : org_in_conc = BuildObj(sc[1], o, sc[2], Zero)
       /\ \E dv \in DValues : D_values = BuildObj(sc[1], dv, sc[2], Q(5, 1))
  /\ phase_ratio \in RatioValues
  /\ simRes = Null
  /\ OptIdle /\ CompIdle
  /\ SeqIdle /\ TestsIdle /\ ConcIdle /\ AppIdle

Simulate ==
  /\ pc = "call"
  /\ simRes' = simulate_sx_stage(aq_in_conc, org_in_conc, phase_ratio, D_values)
  /\ pc' = "done"
  /\ UNCHANGED <<aq_in_conc, org_in_conc, phase_ratio, D_values, optVars, compVars,
               seqVars, testVars, concVars, appVars>>

NextSim == Simulate

SpecSim == InitSim /\ [][NextSim]_vars

\* --- prescriptive_setpoint_optimizer called on arbitrary arguments ---

InitOpt ==
  /\ pc = "call"
  /\ current_pH \in PHValues
  /\ target_optimal_pH \in PHValues \cup {Undefined}
  /\ deterministic \in BOOLEAN
  /\ rnd = Zero
  /\ optRes = Null
  /\ SimIdle /\ CompIdle
  /\ SeqIdle /\ TestsIdle /\ ConcIdle /\ AppIdle

Optimize ==
  /\ pc = "call"
  /\ \E random \in RandomSamples :
       /\ rnd' = random
       /\ optRes' = prescriptive_setpoint_optimizer(current_pH, target_optimal_pH,
                                                    deterministic, random)
  /\ pc' = "done"
  /\ UNCHANGED <<current_pH, target_optimal_pH, deterministic, simVars, compVars,
               seqVars, testVars, concVars, appVars>>

NextOpt == Optimize

SpecOpt == InitOpt /\ [][NextOpt]_vars

\* --- check_th_u_compliance called on arbitrary arguments ---

InitComp ==
  /\ pc = "call"
  /\ th_conc \in ThUValues
  /\ u_conc \in ThUValues
  /\ limit \in LimitValues
  /\ compRes = Null
  /\ SimIdle /\ OptIdle
  /\ SeqIdle /\ TestsIdle /\ ConcIdle /\ AppIdle

CheckCompliance ==
  /\ pc = "call"
  /\ compRes' = check_th_u_compliance(th_conc, u_conc, limit)
  /\ pc' = "done"
  /\ UNCHANGED <<th_conc, u_conc, limit, simVars, optVars,
               seqVars, testVars, concVars, appVars>>

NextComp == CheckCompliance

SpecComp == InitComp /\ [][NextComp]_vars

\* --- a sequence of calls of the three core functions, one after another ---

LeafIdle == pc = "call" /\ SimIdle /\ OptIdle /\ CompIdle

\* longest call sequence explored
MaxCalls == 3

\* the argument lists of the harness cases 1.1 and 1.3
SimArgs ==
  {[aq_in_conc |-> [key \in {"Nd"} |-> Q(10, 1)], org_in_conc |-> EmptyObj,
    phase_ratio |-> Q(1, 1), D_values |-> [key \in {"Nd"} |-> Q(1, 1)]],
   [aq_in_conc |-> [key \in {"Nd"} |-> Q(100, 1)], org_in_conc |-> EmptyObj,
    phase_ratio |-> Q(2, 1), D_values |-> [key \in {"Nd"} |-> Q(5, 2)]]}

\* the pH pairs of the harness cases 2.1 and 2.3, with and without noise
OptArgs ==
  {[current_pH |-> p[1], target_optimal_pH |-> p[2], deterministic |-> det] :
     p \in {<<Q(1, 1), Q(2, 1)>>, <<Q(9, 5), Q(9, 5)>>}, det \in BOOLEAN}

\* the argument lists of the harness cases 3.1 and 3.3
CompArgs ==
  {[th_conc |-> Q(1, 25), u_conc |-> Q(1, 20), limit |-> Q(1, 10)],
   [th_conc |-> Q(1, 20), u_conc |-> Q(1, 20), limit |-> Q(1, 10)]}

InitCalls == LeafIdle /\ SeqIdle /\ TestsIdle /\ ConcIdle /\ AppIdle

CallSimulate ==
  /\ Len(callLog) < MaxCalls
  /\ \E a \in SimArgs :
       callLog' = Append(callLog,
         [fn |-> "simulate_sx_stage", args |-> a,
          result |-> simulate_sx_stage(a.aq_in_conc, a.org_in_conc,
                                       a.phase_ratio, a.D_values)])
  /\ UNCHANGED <<rngDraws, leafVars, testVars, concVars, appVars>>

\* Math.random() is evaluated, and its generator advanced, only on the
\* branch of the conditional taken when deterministic is false
CallOptimize ==
  /\ Len(callLog) < MaxCalls
  /\ \E a \in OptArgs : \E random \in RandomSamples :
       /\ callLog' = Append(callLog,
            [fn |-> "prescriptive_setpoint_optimizer", args |-> a,
             result |-> prescriptive_setpoint_optimizer(a.current_pH,
                          a.target_optimal_pH, a.deterministic, random)])
       /\ rngDraws' = IF a.deterministic THEN rngDraws ELSE rngDraws + 1
  /\ UNCHANGED <<leafVars, testVars, concVars, appVars>>

CallCheckCompliance ==
  /\ Len(callLog) < MaxCalls
  /\ \E a \in CompArgs :
       callLog' = Append(callLog,
         [fn |-> "check_th_u_compliance", args |-> a,
          result |-> check_th_u_compliance(a.th_conc, a.u_conc, a.limit)])
  /\ UNCHANGED <<rngDraws, leafVars, testVars, concVars, appVars>>

NextCalls == CallSimulate \/ CallOptimize \/ CallCheckCompliance

SpecCalls == InitCalls /\ [][NextCalls]_vars

\* --- runAllTests, statement by statement, run after run ---

\* number of runs of the harness explored
MaxRuns == 2

\* the loop body of 2.3 over the flag and the samples it can meet
LoopOutcome == [b \in BOOLEAN, r \in RandomSamples |-> LoopBody(b, r)]

InitTests == LeafIdle /\ SeqIdle /\ TestsIdle /\ ConcIdle /\ AppIdle

\* the modal opens and calls runAllTests: const results = []
RunAllTestsBegin ==
  /\ tpc = 0 /\ runs < MaxRuns
  /\ tpc' = 1
  /\ results' = <<>>
  /\ UNCHANGED <<i, inBounds, sample, runs, returned, leafVars, seqVars, concVars, appVars>>

\* one assertion outside the loop: the call it is about and assert(...); the
\* assertion before the loop is followed by let inBounds = true and i = 0
AssertStep ==
  /\ tpc \in (1 .. NumCases) \ {LoopCase}
  /\ \E t \in {Battery(tpc, inBounds)} :
       results' = assert(results, CaseNames[tpc].module, CaseNames[tpc].name,
                         t.condition, t.expected, t.actual)
  /\ tpc' = tpc + 1
  /\ IF tpc + 1 = LoopCase
     THEN inBounds' = TRUE /\ i' = 0
     ELSE UNCHANGED <<i, inBounds>>
  /\ UNCHANGED <<sample, runs, returned, leafVars, seqVars, concVars, appVars>>

\* one iteration of for (let i = 0; i < 50; i++)
LoopIteration ==
  /\ tpc = LoopCase /\ i < LoopCount
  /\ \E random \in RandomSamples :
       /\ sample' = random
       /\ inBounds' = LoopOutcome[inBounds, random]
  /\ i' = i + 1
  /\ UNCHANGED <<tpc, results, runs, returned, leafVars, seqVars, concVars, appVars>>

\* the loop is left and its assertion made
LoopExit ==
  /\ tpc = LoopCase /\ ~(i < LoopCount)
  /\ \E t \in {Battery(tpc, inBounds)} :
       results' = assert(results, CaseNames[tpc].module, CaseNames[tpc].name,
                         t.condition, t.expected, t.actual)
  /\ tpc' = tpc + 1
  /\ UNCHANGED <<i, inBounds, sample, runs, returned, leafVars, seqVars, concVars, appVars>>

\* return results; the modal stores the array with setResults
RunAllTestsReturn ==
  /\ tpc = NumCases + 1
  /\ returned' = results
  /\ runs' = runs + 1
  /\ tpc' = 0
  /\ UNCHANGED <<results, i, inBounds, sample, leafVars, seqVars, concVars, appVars>>

\* the statements of a run in progress
RunStep == AssertStep \/ LoopIteration \/ LoopExit \/ RunAllTestsReturn

NextTests == RunAllTestsBegin \/ RunStep

SpecTests == InitTests /\ [][NextTests]_vars

\* runAllTests is synchronous: once entered it runs on to its return
SpecTestsFair == SpecTests /\ WF_vars(RunStep)

\* --- several invocations of the core functions, interleaved step by step ---

\* number of invocations in flight
NumInvocations == 2

Invocations == 1 .. NumInvocations

ConcCalls ==
  {[fn |-> "simulate_sx_stage", args |-> a] : a \in SimArgs}
  \cup {[fn |-> "prescriptive_setpoint_optimizer", args |-> a] :
          a \in {o \in OptArgs : o.current_pH = Q(1, 1)}}
  \cup {[fn |-> "check_th_u_compliance", args |-> a] : a \in CompArgs}

InitConc ==
  /\ LeafIdle /\ SeqIdle /\ TestsIdle /\ AppIdle
  /\ calls \in [Invocations -> ConcCalls]
  /\ frame = [id \in Invocations |-> [pc |-> "entry"]]
  /\ heap = <<>>
  /\ ret = [id \in Invocations |-> Null]

\* simulate_sx_stage up to the loop: aqOut = {}, orgOut = {}, safeR
SimEntry(id) ==
  /\ calls[id].fn = "simulate_sx_stage" /\ frame[id].pc = "entry"
  /\ LET aqOut == NewRef(heap)
         heap1 == Store(heap, aqOut, EmptyObj)
         orgOut == NewRef(heap1)
     IN  /\ heap' = Store(heap1, orgOut, EmptyObj)
         /\ frame' = [frame EXCEPT ![id] =
              [pc |-> "loop", aqOut |-> aqOut, orgOut |-> orgOut,
               safeR |-> SafeR(calls[id].args.phase_ratio), k |-> 1]]
  /\ UNCHANGED <<calls, ret, leafVars, seqVars, testVars, appVars>>

\* one call of the forEach callback: aqOut[el] = ..., orgOut[el] = ...
SimSpecies(id) ==
  /\ calls[id].fn = "simulate_sx_stage" /\ frame[id].pc = "loop"
  /\ frame[id].k <= Len(targetElements)
  /\ LET a == calls[id].args
         f == frame[id]
         el == targetElements[f.k]
         r == StageEl(a.aq_in_conc, a.org_in_conc, f.safeR, a.D_values, el)
         heap1 == Store(heap, f.aqOut, Put(heap[f.aqOut], el, r.aq))
     IN  heap' = Store(heap1, f.orgOut, Put(heap1[f.orgOut], el, r.org))
  /\ frame' = [frame EXCEPT ![id].k = @ + 1]
  /\ UNCHANGED <<calls, ret, leafVars, seqVars, testVars, appVars>>

\* return { aqOut, orgOut }
SimReturn(id) ==
  /\ calls[id].fn = "simulate_sx_stage" /\ frame[id].pc = "loop"
  /\ frame[id].k > Len(targetElements)
  /\ ret' = [ret EXCEPT ![id] =
       [aqOut |-> heap[frame[id].aqOut], orgOut |-> heap[frame[id].orgOut]]]
  /\ frame' = [frame EXCEPT ![id].pc = "done"]
  /\ UNCHANGED <<calls, heap, leafVars, seqVars, testVars, appVars>>

\* prescriptive_setpoint_optimizer: the sanitized cPH and tPH
OptSanitize(id) ==
  /\ calls[id].fn = "prescriptive_setpoint_optimizer" /\ frame[id].pc = "entry"
  /\ LET a == calls[id].args
         target == DefaultArg(a.target_optimal_pH, Q(9, 5))
     IN  frame' = [frame EXCEPT ![id] =
           [pc |-> "sanitized",
            cPH |-> IF NumberIsNaN(a.current_pH) THEN Zero ELSE a.current_pH,
            tPH |-> IF NumberIsNaN(target) THEN Q(9, 5) ELSE target]]
  /\ UNCHANGED <<calls, heap, ret, leafVars, seqVars, testVars, appVars>>

\* the rest of the optimizer on cPH and tPH, with the sample it draws
OptReturn(id) ==
  /\ calls[id].fn = "prescriptive_setpoint_optimizer" /\ frame[id].pc = "sanitized"
  /\ \E random \in RandomSamples :
       /\ ret' = [ret EXCEPT ![id] =
            prescriptive_setpoint_optimizer(frame[id].cPH, frame[id].tPH,
                                            calls[id].args.deterministic, random)]
       /\ frame' = [frame EXCEPT ![id] = [pc |-> "done", random |-> random]]
  /\ UNCHANGED <<calls, heap, leafVars, seqVars, testVars, appVars>>

\* check_th_u_compliance: safeTh, safeU, safeLimit
CompSanitize(id) ==
  /\ calls[id].fn = "check_th_u_compliance" /\ frame[id].pc = "entry"
  /\ LET a == calls[id].args
         lim == DefaultArg(a.limit, Q(1, 10))
     IN  frame' = [frame EXCEPT ![id] =
           [pc |-> "sanitized",
            safeTh |-> MathMax(Zero, OrZero(a.th_conc)),
            safeU |-> MathMax(Zero, OrZero(a.u_conc)),
            safeLimit |-> IF NumberIsNaN(lim) THEN Q(1, 10) ELSE lim]]
  /\ UNCHANGED <<calls, heap, ret, leafVars, seqVars, testVars, appVars>>

\* the rest of check_th_u_compliance on safeTh, safeU, safeLimit
CompReturn(id) ==
  /\ calls[id].fn = "check_th_u_compliance" /\ frame[id].pc = "sanitized"
  /\ ret' = [ret EXCEPT ![id] =
       check_th_u_compliance(frame[id].safeTh, frame[id].safeU, frame[id].safeLimit)]
  /\ frame' = [frame EXCEPT ![id].pc = "done"]
  /\ UNCHANGED <<calls, heap, leafVars, seqVars, testVars, appVars>>

NextConc ==
  \E id \in Invocations :
    \/ SimEntry(id) \/ SimSpecies(id) \/ SimReturn(id)
    \/ OptSanitize(id) \/ OptReturn(id)
    \/ CompSanitize(id) \/ CompReturn(id)

SpecConc == InitConc /\ [][NextConc]_vars

\* --- the recommended setpoint entered again as the current pH ---

\* half-width of the pH windows, in hundredths
FeedbackSpan == 6

\* centres of the pH windows, in hundredths: around 0 and around 1.8
FeedbackCentres == {0, 180}

\* the 2-decimal pH values of the window around centre
FeedbackWindow(centre) ==
  {Q(k, 100) : k \in (centre - FeedbackSpan) .. (centre + FeedbackSpan)}

\* the Math.random() samples drawn here: both ends of the range
ExtremeSamples == {Zero, Q(9999, 10000)}

\* the optimizer on the 2-decimal values of each window
FeedbackTable ==
  [centre \in FeedbackCentres |->
     [c \in FeedbackWindow(centre), t \in FeedbackWindow(centre),
      det \in BOOLEAN, r \in ExtremeSamples |->
        prescriptive_setpoint_optimizer(c, t, det, r)]]

\* the window a pH value lies in
WindowOf(c) == CHOOSE centre \in FeedbackCentres : c \in FeedbackWindow(centre)

InitFeedback ==
  /\ pc = "call"
  /\ \E centre \in FeedbackCentres :
       /\ current_pH \in FeedbackWindow(centre)
       /\ target_optimal_pH \in FeedbackWindow(centre)
  /\ deterministic \in BOOLEAN
  /\ rnd = Zero
  /\ optRes = Null
  /\ SimIdle /\ CompIdle
  /\ SeqIdle /\ TestsIdle /\ ConcIdle /\ AppIdle

\* the optimizer is called on the current pH
Recommend ==
  /\ pc = "call"
  /\ \E random \in ExtremeSamples :
       /\ rnd' = random
       /\ optRes' = FeedbackTable[WindowOf(current_pH)][current_pH, target_optimal_pH,
                                                       deterministic, random]
  /\ pc' = "done"
  /\ UNCHANGED <<current_pH, target_optimal_pH, deterministic, simVars, compVars,
               seqVars, testVars, concVars, appVars>>

\* the recommended setpoint becomes the current pH of the next call
ApplySetpoint ==
  /\ pc = "done"
  /\ current_pH' = optRes.new_pH_setpoint
  /\ pc' = "call"
  /\ UNCHANGED <<target_optimal_pH, deterministic, rnd, optRes, simVars, compVars,
               seqVars, testVars, concVars, appVars>>

NextFeedback == Recommend \/ ApplySetpoint

SpecFeedback == InitFeedback /\ [][NextFeedback]_vars

\* the setpoint is fed back again and again
SpecFeedbackFair == SpecFeedback /\ WF_vars(NextFeedback)

\* --- App: UI events and the runSimulation effect ---

\* most UI events handled in one session
MaxEvents == 3

\* values typed into the fields: parseFloat gives NaN for an empty field
AqEdits == {<<"Th", NaN>>, <<"Th", Q(3, 1)>>}

DEdits == {<<"U", NaN>>}

RatioEdits == {Q(2, 1)}

CurrentPHEdits == {NaN}

TargetPHEdits == {Q(2, 1)}

LimitEdits == {Q(1, 2)}

\* the dependency array of the effect
Deps == [aqIn |-> aqIn, orgIn |-> orgIn, phaseRatio |-> phaseRatio,
         dValues |-> dValues, currentPH |-> currentPH, targetPH |-> targetPH,
         regLimit |-> regLimit]

InitApp == LeafIdle /\ SeqIdle /\ TestsIdle /\ ConcIdle /\ AppIdle

\* useEffect(() => runSimulation(), [inputs]): runs after the render that
\* changed a dependency, with the inputs of that render; the three setters
\* are applied together
RunSimulationEffect ==
  /\ effectPending
  /\ \E random \in ExtremeSamples :
       \E r \in {runSimulation(aqIn, orgIn, phaseRatio, dValues,
                               currentPH, targetPH, regLimit, random)} :
         /\ simulationResults' = r.simulationResults
         /\ complianceResults' = r.complianceResults
         /\ optimizationResults' = r.optimizationResults
  /\ effectPending' = FALSE
  /\ effectDeps' = Deps
  /\ event' = "runSimulation"
  /\ UNCHANGED <<inputVars, showTests, history, darkMode, clock,
               leafVars, seqVars, testVars, concVars>>

\* a UI event is handled: time has passed.  A handler that sets state starts
\* a new render, and the effect of the previous render runs before that, so
\* such a handler is taken up when no effect is due
Handled(name) ==
  /\ clock < MaxEvents
  /\ clock' = clock + 1
  /\ event' = name

\* updateAqIn: a new object each time, so the dependency always changes
UpdateAqIn ==
  /\ ~effectPending /\ Handled("updateAqIn")
  /\ \E e \in AqEdits : aqIn' = Put(aqIn, e[1], e[2])
  /\ effectPending' = TRUE
  /\ UNCHANGED <<orgIn, phaseRatio, dValues, currentPH, targetPH, regLimit,
               resultVars, showTests, history, darkMode, effectDeps,
               leafVars, seqVars, testVars, concVars>>

\* updateD
UpdateD ==
  /\ ~effectPending /\ Handled("updateD")
  /\ \E e \in DEdits : dValues' = Put(dValues, e[1], e[2])
  /\ effectPending' = TRUE
  /\ UNCHANGED <<aqIn, orgIn, phaseRatio, currentPH, targetPH, regLimit,
               resultVars, showTests, history, darkMode, effectDeps,
               leafVars, seqVars, testVars, concVars>>

\* setPhaseRatio: the effect is due when the value differs (Object.is)
SetPhaseRatio ==
  /\ ~effectPending /\ Handled("setPhaseRatio")
  /\ \E v \in RatioEdits : phaseRatio' = v
  /\ effectPending' = (phaseRatio' # phaseRatio)
  /\ UNCHANGED <<aqIn, orgIn, dValues, currentPH, targetPH, regLimit,
               resultVars, showTests, history, darkMode, effectDeps,
               leafVars, seqVars, testVars, concVars>>

SetCurrentPH ==
  /\ ~effectPending /\ Handled("setCurrentPH")
  /\ \E v \in CurrentPHEdits : currentPH' = v
  /\ effectPending' = (currentPH' # currentPH)
  /\ UNCHANGED <<aqIn, orgIn, phaseRatio, dValues, targetPH, regLimit,
               resultVars, showTests, history, darkMode, effectDeps,
               leafVars, seqVars, testVars, concVars>>

SetTargetPH ==
  /\ ~effectPending /\ Handled("setTargetPH")
  /\ \E v \in TargetPHEdits : targetPH' = v
  /\ effectPending' = (targetPH' # targetPH)
  /\ UNCHANGED <<aqIn, orgIn, phaseRatio, dValues, currentPH, regLimit,
               resultVars, showTests, history, darkMode, effectDeps,
               leafVars, seqVars, testVars, concVars>>

SetRegLimit ==
  /\ ~effectPending /\ Handled("setRegLimit")
  /\ \E v \in LimitEdits : regLimit' = v
  /\ effectPending' = (regLimit' # regLimit)
  /\ UNCHANGED <<aqIn, orgIn, phaseRatio, dValues, currentPH, targetPH,
               resultVars, showTests, history, darkMode, effectDeps,
               leafVars, seqVars, testVars, concVars>>

ToggleDarkMode ==
  /\ ~effectPending /\ Handled("toggleDarkMode")
  /\ darkMode' = ~darkMode
  /\ UNCHANGED <<inputVars, resultVars, showTests, history, effectPending,
               effectDeps, leafVars, seqVars, testVars, concVars>>

\* the Run System Diagnostics button
OpenTests ==
  /\ ~effectPending /\ Handled("setShowTests(true)")
  /\ showTests' = TRUE
  /\ UNCHANGED <<inputVars, resultVars, history, darkMode, effectPending,
               effectDeps, leafVars, seqVars, testVars, concVars>>

\* onClose of the modal
CloseTests ==
  /\ ~effectPending /\ Handled("setShowTests(false)")
  /\ showTests /\ showTests' = FALSE
  /\ UNCHANGED <<inputVars, resultVars, history, darkMode, effectPending,
               effectDeps, leafVars, seqVars, testVars, concVars>>

\* captureSnapshot reads the values of the last render; a click can be
\* handled before the effect of that render has run
CaptureSnapshot ==
  /\ Handled("captureSnapshot")
  /\ IF simulationResults = Null \/ complianceResults = Null
          \/ optimizationResults = Null
     THEN history' = history
     ELSE history' = PutFirst(newEntry(clock', aqIn, phaseRatio, currentPH, targetPH,
                                       complianceResults, optimizationResults),
                              history)
  /\ UNCHANGED <<inputVars, resultVars, showTests, darkMode, effectPending,
               effectDeps, leafVars, seqVars, testVars, concVars>>

InputChange ==
  \/ UpdateAqIn \/ UpdateD \/ SetPhaseRatio
  \/ SetCurrentPH \/ SetTargetPH \/ SetRegLimit

NextApp ==
  \/ RunSimulationEffect
  \/ InputChange
  \/ ToggleDarkMode \/ OpenTests \/ CloseTests
  \/ CaptureSnapshot

SpecApp == InitApp /\ [][NextApp]_vars

\* an effect that is due runs
EffectFlush == effectPending /\ effectPending' = FALSE

SpecAppFair == SpecApp /\ WF_effectPending(EffectFlush)

----------------------------------------------------------------------------
(* Vocabulary of the properties *)

Le(a, b) == Lt(a, b) \/ (a.k \in {"num", "inf"} /\ a = b)

AbsQ(x) == IF x.n < 0 THEN Neg(x) ELSE x

NonNegNum(x) == IsNum(x) /\ x.n >= 0

\* the value a caller supplied for a species: a missing key counts as 0
Supplied(obj, el) == IF el \in DOMAIN obj THEN obj[el] ELSE Zero

\* negative, NaN or missing -> 0, anything else unchanged
Sanitized(x) == IF x.k \in {"undef", "nan"} \/ Lt(x, Zero) THEN Zero ELSE x

\* NaN (or omitted) limit -> 0.1
SanitizedLimit(x) == IF x.k \in {"undef", "nan"} THEN Q(1, 10) ELSE x

\* NaN -> 1.0, below 1e-4 -> 1e-4, anything else unchanged
SanitizedRatio(x) ==
  IF x.k = "nan" THEN Q(1, 1)
  ELSE IF Lt(x, Q(1, 10000)) THEN Q(1, 10000)
  ELSE x

\* NaN current pH -> 0
SanitizedCurrent(x) == IF x.k = "nan" THEN Zero ELSE x

\* NaN or omitted target pH -> 1.8
SanitizedTarget(x) == IF x.k \in {"undef", "nan"} THEN Q(9, 5) ELSE x

HalfTick == Q(1, 20000)

\* out is the value x >= 0 rounded to 4 decimals, halves upward
IsRound4(out, x) ==
  /\ IsNum(out) /\ 10000 % out.d = 0
  /\ Lt(Neg(HalfTick), Sub(out, x)) /\ Le(Sub(out, x), HalfTick)

\* out is x rounded to 2 decimals, halves away from zero
IsRound2(out, x) ==
  /\ IsNum(out) /\ 100 % out.d = 0
  /\ Le(AbsQ(Sub(out, x)), Q(1, 200))
  /\ (AbsQ(Sub(out, x)) = Q(1, 200) => Lt(AbsQ(x), AbsQ(out)))

\* (Cin_aq + R*Cin_org) - (aqOut + R*orgOut), summed phase by phase
MassDefect(el, R) ==
  Add(Sub(Supplied(aq_in_conc, el), simRes.aqOut[el]),
      Mul(R, Sub(Supplied(org_in_conc, el), simRes.orgOut[el])))

FiniteNonNegInputs(el) ==
  /\ NonNegNum(Supplied(aq_in_conc, el))
  /\ NonNegNum(Supplied(org_in_conc, el))
  /\ NonNegNum(Supplied(D_values, el))
  /\ IsNum(phase_ratio) /\ phase_ratio.n > 0

----------------------------------------------------------------------------
(* C1 *)

\* C1 as stated: for non-negative finite Cin_aq, Cin_org, D and every phase
\* ratio R > 0 the rounded outputs conserve mass within 0.1, measured with
\* the phase ratio R the caller passed.
C1_MassBalancePassedRatio ==
  pc = "done" =>
    \A el \in TrackedSet :
      FiniteNonNegInputs(el) =>
        Lt(AbsQ(MassDefect(el, phase_ratio)), Q(1, 10))

\* C1 (amended): for non-negative finite Cin_aq, Cin_org, D and a finite phase
\* ratio R > 0, with R_safe = max(1e-4, R) the rounded outputs satisfy
\* |(Cin_aq + R_safe*Cin_org) - (aqOut + R_safe*orgOut)| <= 0.00005*(1 + R_safe),
\* which is below 0.1 whenever R_safe < 1999.
C1_MassBalanceSafeRatio ==
  pc = "done" =>
    \A el \in TrackedSet :
      FiniteNonNegInputs(el) =>
        LET Rs == SanitizedRatio(phase_ratio)
            err == AbsQ(MassDefect(el, Rs))
        IN  /\ Le(err, Mul(HalfTick, Add(Q(1, 1), Rs)))
            /\ (Lt(Rs, Q(1999, 1)) => Lt(err, Q(1, 10)))

\* the harness case 1.3 (feed 100, R = 2, D = 2.5) has run and both outputs
\* were rounded
C1_Witness ==
  /\ pc = "done"
  /\ aq_in_conc = [key \in {"Nd"} |-> Q(100, 1)]
  /\ org_in_conc = EmptyObj
  /\ D_values = [key \in {"Nd"} |-> Q(5, 2)]
  /\ phase_ratio = Q(2, 1)
  /\ simRes.aqOut["Nd"] = Q(166667, 10000)
  /\ simRes.orgOut["Nd"] = Q(416667, 10000)

----------------------------------------------------------------------------
(* C2 *)

\* C2: is_compliant is true exactly when sanitized Th + sanitized U is
\* strictly below the limit (a sum equal to the limit is non-compliant), and
\* finding is the "Meets" message exactly when is_compliant is true, the
\* "EXCEEDS" message otherwise.
C2_StrictBoundary ==
  pc = "done" /\ compRes # Null =>
    LET sum == Add(Sanitized(th_conc), Sanitized(u_conc))
        lim == SanitizedLimit(limit)
    IN  /\ compRes.is_compliant = Lt(sum, lim)
        /\ (sum = lim => compRes.is_compliant = FALSE)
        /\ compRes.finding \in {FindingMeets, FindingExceeds}
        /\ (compRes.finding = FindingMeets) = (compRes.is_compliant = TRUE)

\* 0.05 + 0.05 against 0.1 was checked and found non-compliant
C2_Witness ==
  /\ pc = "done" /\ compRes # Null
  /\ th_conc = Q(1, 20) /\ u_conc = Q(1, 20) /\ limit = Q(1, 10)
  /\ compRes.is_compliant = FALSE
  /\ compRes.finding = FindingExceeds

----------------------------------------------------------------------------
(* C3 *)

\* C3: the result equals the result for the sanitized arguments (negative or
\* NaN Th/U -> 0, NaN limit -> 0.1); with a negative Th or U the verdict is
\* that of the other value alone, and checkCompliance(-5, 0.2, 0.5) reports
\* total 0.2.
C3_SanitizeFirst ==
  pc = "done" /\ compRes # Null =>
    /\ compRes = check_th_u_compliance(Sanitized(th_conc), Sanitized(u_conc),
                                       SanitizedLimit(limit))
    /\ (Lt(th_conc, Zero) =>
          compRes.is_compliant = Lt(Sanitized(u_conc), SanitizedLimit(limit)))
    /\ (Lt(u_conc, Zero) =>
          compRes.is_compliant = Lt(Sanitized(th_conc), SanitizedLimit(limit)))
    /\ (th_conc = Q(-5, 1) /\ u_conc = Q(1, 5) /\ limit = Q(1, 2) =>
          compRes.total_conc_gl = Q(1, 5))

\* checkCompliance(-5, 0.2, 0.5) has run
C3_Witness ==
  /\ pc = "done" /\ compRes # Null
  /\ th_conc = Q(-5, 1) /\ u_conc = Q(1, 5) /\ limit = Q(1, 2)
  /\ compRes.total_conc_gl = Q(1, 5)
  /\ compRes.is_compliant = TRUE

----------------------------------------------------------------------------
(* C4 *)

\* the outputs of species el are the equilibrium values for phase ratio Rs,
\* each rounded to 4 decimals: aqOut = round4((Cin_aq + Rs*Cin_org)/(1 + Rs*D))
\* and orgOut = round4(D * Cout_aq)
StageMatches(el, Rs) ==
  LET Cin_aq == Sanitized(Get(aq_in_conc, el))
      Cin_org == Sanitized(Get(org_in_conc, el))
      D == Sanitized(Get(D_values, el))
      Cout_aq == Div(Add(Cin_aq, Mul(Rs, Cin_org)), Add(Q(1, 1), Mul(Rs, D)))
  IN  IsNum(Cin_aq) /\ IsNum(Cin_org) /\ IsNum(D) /\ IsNum(Rs) =>
        /\ IsRound4(simRes.aqOut[el], Cout_aq)
        /\ IsRound4(simRes.orgOut[el], Mul(D, Cout_aq))

\* C4: per tracked species aqOut = round4((Cin_aq + R_safe*Cin_org) /
\* (1 + R_safe*D)) and orgOut = round4(D * Cout_aq) on the sanitized inputs;
\* feed 10 with R = 1, D = 1 gives 5 and 5, with D = 9 gives 1 and 9.
C4_EquilibriumFormula ==
  pc = "done" /\ simRes # Null =>
    /\ \A el \in TrackedSet : StageMatches(el, SanitizedRatio(phase_ratio))
    /\ \A dv \in {1, 9} :
         (/\ aq_in_conc = [key \in {"Nd"} |-> Q(10, 1)]
          /\ org_in_conc = EmptyObj
          /\ phase_ratio = Q(1, 1)
          /\ D_values = [key \in {"Nd"} |-> Q(dv, 1)])
         => /\ simRes.aqOut["Nd"] = Q(10, 1 + dv)
            /\ simRes.orgOut["Nd"] = Q(10 * dv, 1 + dv)

\* the harness case 1.2 (feed 10, R = 1, D = 9) has run
C4_Witness ==
  /\ pc = "done" /\ simRes # Null
  /\ aq_in_conc = [key \in {"Nd"} |-> Q(10, 1)]
  /\ org_in_conc = EmptyObj
  /\ phase_ratio = Q(1, 1)
  /\ D_values = [key \in {"Nd"} |-> Q(9, 1)]
  /\ simRes.aqOut["Nd"] = Q(1, 1)
  /\ simRes.orgOut["Nd"] = Q(9, 1)

----------------------------------------------------------------------------
(* C5 *)

\* C5: whatever the input maps hold, aqOut and orgOut have exactly the keys
\* Nd, Fe, Th, U, and a species absent from both aqIn and orgIn has
\* aqOut = 0 and orgOut = 0.
C5_AllSpeciesPresent ==
  pc = "done" /\ simRes # Null =>
    /\ DOMAIN simRes.aqOut = {"Nd", "Fe", "Th", "U"}
    /\ DOMAIN simRes.orgOut = {"Nd", "Fe", "Th", "U"}
    /\ \A el \in TrackedSet :
         el \notin DOMAIN aq_in_conc /\ el \notin DOMAIN org_in_conc =>
           simRes.aqOut[el] = Zero /\ simRes.orgOut[el] = Zero

----------------------------------------------------------------------------
(* C6 *)

\* C6: for all inputs whatsoever every value in aqOut and orgOut is finite
\* and >= 0; aqIn Nd = -10 yields aqOut.Nd = 0.
C6_FiniteNonNegative ==
  pc = "done" /\ simRes # Null =>
    /\ \A el \in TrackedSet :
         NonNegNum(simRes.aqOut[el]) /\ NonNegNum(simRes.orgOut[el])
    /\ (Get(aq_in_conc, "Nd") = Q(-10, 1) /\ "Nd" \notin DOMAIN org_in_conc
          => simRes.aqOut["Nd"] = Zero)

----------------------------------------------------------------------------
(* C7 *)

\* C7: the result is the one for the sanitized phase ratio: a NaN ratio gives
\* the result of ratio 1.0, every ratio below 1e-4 that of ratio 1e-4, and a
\* ratio >= 1e-4 is used as it is.
C7_RatioSanitized ==
  pc = "done" /\ simRes # Null =>
    LET Rs == SanitizedRatio(phase_ratio)
    IN  /\ simRes = simulate_sx_stage(aq_in_conc, org_in_conc, Rs, D_values)
        /\ \A el \in TrackedSet :
             NonNegNum(Supplied(aq_in_conc, el))
             /\ NonNegNum(Supplied(org_in_conc, el))
             /\ NonNegNum(Supplied(D_values, el)) /\ IsNum(Rs)
             => Le(AbsQ(MassDefect(el, Rs)), Mul(HalfTick, Add(Q(1, 1), Rs)))

\* a call with phase ratio 0 and organic feed has run: the organic feed
\* entered the balance with ratio 1e-4 (2.5 * 1e-4 = 0.00025 -> 0.0003)
C7_Witness ==
  /\ pc = "done" /\ simRes # Null
  /\ phase_ratio = Zero
  /\ aq_in_conc = [key \in {"Nd"} |-> Zero]
  /\ org_in_conc = [key \in {"Nd"} |-> Q(5, 2)]
  /\ D_values = [key \in {"Nd"} |-> Zero]
  /\ simRes.aqOut["Nd"] = Q(3, 10000)

\* a call with a NaN phase ratio has run: feed 10, D = 9 gives 1 and 9 as
\* with ratio 1.0
C7_WitnessNaN ==
  /\ pc = "done" /\ simRes # Null
  /\ phase_ratio = NaN
  /\ aq_in_conc = [key \in {"Nd"} |-> Q(10, 1)]
  /\ D_values = [key \in {"Nd"} |-> Q(9, 1)]
  /\ simRes.aqOut["Nd"] = Q(1, 1)

----------------------------------------------------------------------------
(* C8 *)

\* C8: new_pH_setpoint is the midpoint of the sanitized current and target pH
\* rounded to 2 decimals, whatever the deterministic flag and the noise
\* sample; optimize(1.0, 2.0) and optimize(2.0, 1.0) both give 1.5.
C8_SetpointMidpoint ==
  pc = "done" /\ optRes # Null =>
    LET c == SanitizedCurrent(current_pH)
        t == SanitizedTarget(target_optimal_pH)
    IN  /\ (IsNum(c) /\ IsNum(t) =>
              IsRound2(optRes.new_pH_setpoint, Mul(Add(c, t), Q(1, 2))))
        /\ ({current_pH, target_optimal_pH} = {Q(1, 1), Q(2, 1)} =>
              optRes.new_pH_setpoint = Q(3, 2))

\* optimize(2.0, 1.0) has run with noise switched on and a non-zero sample
C8_Witness ==
  /\ pc = "done" /\ optRes # Null
  /\ current_pH = Q(2, 1) /\ target_optimal_pH = Q(1, 1)
  /\ deterministic = FALSE /\ rnd = Q(9999, 10000)
  /\ optRes.new_pH_setpoint = Q(3, 2)

----------------------------------------------------------------------------
(* C9 *)

C9_WitnessRaise ==
  /\ pc = "done" /\ optRes # Null
  /\ current_pH = Q(9, 5) /\ target_optimal_pH = Q(183, 100)
  /\ optRes.action = ActionRaise

----------------------------------------------------------------------------
(* C10 *)

\* C10: for every current pH, target pH, deterministic flag and noise sample
\* predicted_efficiency lies in [0, 1].
C10_EfficiencyInUnitInterval ==
  pc = "done" /\ optRes # Null =>
    /\ IsNum(optRes.predicted_efficiency)
    /\ Le(Zero, optRes.predicted_efficiency)
    /\ Le(optRes.predicted_efficiency, Q(1, 1))


----------------------------------------------------------------------------
(* C11 *)

\* clamp(x, 0, 1)
ClampUnit(x) == IF Lt(x, Zero) THEN Zero ELSE IF Lt(Q(1, 1), x) THEN Q(1, 1) ELSE x

\* 0.8 - 0.2*(current - target)^2 on the sanitized inputs, clamped to [0, 1]
NoiseFreeEfficiency ==
  LET diff == Sub(SanitizedCurrent(current_pH), SanitizedTarget(target_optimal_pH))
  IN  ClampUnit(Sub(Q(4, 5), Mul(Q(1, 5), Mul(diff, diff))))

\* C11: with deterministic = true predicted_efficiency is exactly
\* clamp(0.8 - 0.2*(current - target)^2, 0, 1); with deterministic = false it
\* differs from that value by at most 0.025 (wherever current - target is
\* defined, i.e. not Infinity - Infinity).
C11_NoiseOnlyWhenStochastic ==
  pc = "done" /\ optRes # Null /\ ~NumberIsNaN(NoiseFreeEfficiency) =>
    /\ (deterministic => optRes.predicted_efficiency = NoiseFreeEfficiency)
    /\ Le(AbsQ(Sub(optRes.predicted_efficiency, NoiseFreeEfficiency)), Q(1, 40))

\* a stochastic call at the optimum drew the lowest sample: 0.8 - 0.025
C11_Witness ==
  /\ pc = "done" /\ optRes # Null
  /\ deterministic = FALSE /\ rnd = Zero
  /\ current_pH = Q(9, 5) /\ target_optimal_pH = Q(9, 5)
  /\ optRes.predicted_efficiency = Q(31, 40)

\* a deterministic call next to a sample other than 0.5 returned the
\* noise-free value
C11_WitnessDeterministic ==
  /\ pc = "done" /\ optRes # Null
  /\ deterministic = TRUE /\ rnd = Q(9999, 10000)
  /\ current_pH = Q(1, 1) /\ target_optimal_pH = Q(2, 1)
  /\ optRes.predicted_efficiency = Q(3, 5)

----------------------------------------------------------------------------
(* C17 *)

\* sanitized Th + sanitized U, before rounding
SanitizedSum == Add(Sanitized(th_conc), Sanitized(u_conc))

\* C17: total_conc_gl is the sanitized sum rounded to 4 decimals, hence a
\* multiple of 0.0001, and checkCompliance(0.1, 0.2, 0.5) reports a total
\* of exactly 0.3.
C17_TotalRounded ==
  pc = "done" /\ compRes # Null =>
    /\ IsNum(SanitizedSum) => IsRound4(compRes.total_conc_gl, SanitizedSum)
    /\ (th_conc = Q(1, 10) /\ u_conc = Q(1, 5) /\ limit = Q(1, 2))
         => compRes.total_conc_gl = Q(3, 10)

\* a sum off the 0.0001 grid (0.09996 + 0 -> 0.1) has been rounded
C17_Witness ==
  /\ pc = "done" /\ compRes # Null
  /\ th_conc = Q(2499, 25000) /\ u_conc = Zero
  /\ compRes.total_conc_gl = Q(1, 10)

\* the harness case 3.5 (0.1 + 0.2 against 0.5) has run
C17_WitnessHarness ==
  /\ pc = "done" /\ compRes # Null
  /\ th_conc = Q(1, 10) /\ u_conc = Q(1, 5) /\ limit = Q(1, 2)
  /\ compRes.total_conc_gl = Q(3, 10)

----------------------------------------------------------------------------
(* C18 *)

\* C18: optimize with a NaN current pH behaves exactly as with current pH 0,
\* and with a NaN or omitted target exactly as with target 1.8 (same
\* deterministic flag, same random draw).
C18_NaNDefaults ==
  pc = "done" /\ optRes # Null =>
    optRes = prescriptive_setpoint_optimizer(SanitizedCurrent(current_pH),
                                             SanitizedTarget(target_optimal_pH),
                                             deterministic, rnd)

\* optimize(NaN, NaN) has run and answered as optimize(0, 1.8): setpoint 0.9
C18_Witness ==
  /\ pc = "done" /\ optRes # Null
  /\ NumberIsNaN(current_pH) /\ NumberIsNaN(target_optimal_pH)
  /\ optRes.new_pH_setpoint = Q(9, 10)
  /\ optRes.action = ActionRaise

\* optimize(1.5) with the target omitted has run: setpoint 1.65
C18_WitnessOmitted ==
  /\ pc = "done" /\ optRes # Null
  /\ current_pH = Q(3, 2) /\ target_optimal_pH = Undefined
  /\ optRes.new_pH_setpoint = Q(33, 20)

----------------------------------------------------------------------------
(* C19 *)

\* a finite value on the 0.0001 grid
OnGrid4(x) == IsNum(x) /\ 10000 % x.d = 0

\* the aqueous value of a species before rounding, on the sanitized inputs
UnroundedAq(el) ==
  LET Rs == SanitizedRatio(phase_ratio)
  IN  Div(Add(Sanitized(Get(aq_in_conc, el)),
              Mul(Rs, Sanitized(Get(org_in_conc, el)))),
          Add(Q(1, 1), Mul(Rs, Sanitized(Get(D_values, el)))))

\* C19: the two outputs of a species are rounded independently as the last
\* step: orgOut is D times the unrounded aqueous value, rounded to 4
\* decimals (not D times the rounded aqOut), and both outputs are multiples
\* of 0.0001.
C19_RoundedLast ==
  pc = "done" /\ simRes # Null =>
    \A el \in TrackedSet :
      LET D == Sanitized(Get(D_values, el))
          exactOrg == Mul(D, UnroundedAq(el))
      IN  IsNum(exactOrg) /\ IsNum(UnroundedAq(el)) =>
            /\ OnGrid4(simRes.aqOut[el]) /\ OnGrid4(simRes.orgOut[el])
            /\ Le(AbsQ(Sub(simRes.orgOut[el], exactOrg)), HalfTick)

\* feed 100, D = 9, R = 2: aqOut = 5.2632, orgOut = 47.3684 although
\* D * aqOut = 47.3688
C19_Witness ==
  /\ pc = "done" /\ simRes # Null
  /\ Get(aq_in_conc, "Nd") = Q(100, 1) /\ Sanitized(Get(org_in_conc, "Nd")) = Zero
  /\ Get(D_values, "Nd") = Q(9, 1) /\ phase_ratio = Q(2, 1)
  /\ simRes.aqOut["Nd"] = Q(6579, 1250)
  /\ simRes.orgOut["Nd"] = Q(118421, 2500)
  /\ ToFixed(Mul(Q(9, 1), simRes.aqOut["Nd"]), 4) # simRes.orgOut["Nd"]

----------------------------------------------------------------------------
(* C20 *)

\* values the entries of the other species are replaced by (undefined: the
\* entries are removed)
PerturbValues == {Undefined, NaN, Q(7, 1)}

\* obj with the entry of el kept and the entry of every other species,
\* tracked or not, replaced by v
Perturb(obj, el, v) ==
  LET keys == (DOMAIN obj \cap {el})
              \cup (IF v.k = "undef" THEN {} ELSE (TrackedSet \cup {OtherKey}) \ {el})
  IN  [key \in keys |-> IF key = el THEN obj[el] ELSE v]

\* C20: the aqOut and orgOut values of a tracked species depend only on its
\* own aqIn, orgIn and D entries and on the phase ratio: changing, adding or
\* removing the entries of every other species leaves them unchanged.
C20_SpeciesIndependent ==
  pc = "done" /\ simRes # Null =>
    \A el \in TrackedSet : \A v \in PerturbValues :
      LET other == simulate_sx_stage(Perturb(aq_in_conc, el, v),
                                     Perturb(org_in_conc, el, v),
                                     phase_ratio,
                                     Perturb(D_values, el, v))
      IN  /\ other.aqOut[el] = simRes.aqOut[el]
          /\ other.orgOut[el] = simRes.orgOut[el]

\* Th was computed next to other species with entries of their own
\* (feed 0.5, D = 5): feed 10, D = 9, R = 1 still gives 1 and 9
C20_Witness ==
  /\ pc = "done" /\ simRes # Null
  /\ DOMAIN aq_in_conc = TrackedSet /\ DOMAIN D_values = TrackedSet
  /\ aq_in_conc["Th"] = Q(10, 1) /\ aq_in_conc["Nd"] = Q(1, 2)
  /\ D_values["Th"] = Q(9, 1) /\ D_values["Nd"] = Q(5, 1)
  /\ Sanitized(Get(org_in_conc, "Th")) = Zero
  /\ phase_ratio = Q(1, 1)
  /\ simRes.aqOut["Th"] = Q(1, 1) /\ simRes.orgOut["Th"] = Q(9, 1)
  /\ simRes.aqOut["Nd"] = Q(833, 10000)

----------------------------------------------------------------------------
(* C13 *)

\* an OptimizationResult with all three fields present and none NaN
CompleteOptimization(r) ==
  /\ DOMAIN r = {"new_pH_setpoint", "action", "predicted_efficiency"}
  /\ r.new_pH_setpoint.k \notin {"nan", "undef"}
  /\ r.predicted_efficiency.k \notin {"nan", "undef"}
  /\ r.action \in {ActionMaintain, ActionRaise, ActionLower}

\* a SimulationResult with both maps present and no NaN entry
CompleteSimulation(r) ==
  /\ DOMAIN r = {"aqOut", "orgOut"}
  /\ \A el \in DOMAIN r.aqOut : r.aqOut[el].k \notin {"nan", "undef"}
  /\ \A el \in DOMAIN r.orgOut : r.orgOut[el].k \notin {"nan", "undef"}

\* a ComplianceResult with all three fields present and no NaN total
CompleteCompliance(r) ==
  /\ DOMAIN r = {"total_conc_gl", "is_compliant", "finding"}
  /\ r.total_conc_gl.k \notin {"nan", "undef"}
  /\ r.is_compliant \in BOOLEAN
  /\ r.finding \in {FindingMeets, FindingExceeds}

\* C13: for every numeric input each leaf function returns a complete
\* result structure: all fields present and none of them NaN.
C13_CompleteResults ==
  pc = "done" =>
    /\ optRes # Null => CompleteOptimization(optRes)
    /\ simRes # Null => CompleteSimulation(simRes)
    /\ compRes # Null => CompleteCompliance(compRes)

----------------------------------------------------------------------------
(* C12 *)

\* a call the claim speaks about: simulate, checkCompliance, or optimize with
\* deterministic = true
Repeatable(c) == c.fn # "prescriptive_setpoint_optimizer" \/ c.args.deterministic

\* C12: two calls of simulate, of checkCompliance, or of optimize with
\* deterministic = true that have identical arguments return identical
\* results, whatever calls were made in between; such calls leave nothing
\* behind (the random generator is advanced by the stochastic calls only).
C12_Deterministic ==
  /\ \A j \in DOMAIN callLog : \A k \in DOMAIN callLog :
       (/\ callLog[j].fn = callLog[k].fn
        /\ callLog[j].args = callLog[k].args
        /\ Repeatable(callLog[j]))
       => callLog[j].result = callLog[k].result
  /\ rngDraws = Cardinality({k \in DOMAIN callLog : ~Repeatable(callLog[k])})

\* optimize(1, 2, true) was called twice with a stochastic optimize(1, 2, false)
\* drawing a high sample in between, and answered the same both times
C12_Witness ==
  /\ Len(callLog) = 3
  /\ callLog[1].fn = "prescriptive_setpoint_optimizer"
  /\ callLog[1].args = [current_pH |-> Q(1, 1), target_optimal_pH |-> Q(2, 1),
                        deterministic |-> TRUE]
  /\ callLog[3].fn = callLog[1].fn /\ callLog[3].args = callLog[1].args
  /\ callLog[2].fn = "prescriptive_setpoint_optimizer"
  /\ callLog[2].args = [current_pH |-> Q(1, 1), target_optimal_pH |-> Q(2, 1),
                        deterministic |-> FALSE]
  /\ callLog[2].result.predicted_efficiency # callLog[1].result.predicted_efficiency
  /\ callLog[3].result = callLog[1].result
  /\ callLog[1].result.predicted_efficiency = Q(3, 5)
  /\ rngDraws = 1

----------------------------------------------------------------------------
(* C14 *)

\* engine cases, then optimizer cases, then compliance cases
ModuleRank(module) ==
  CASE module = "Thermodynamic Core" -> 1
    [] module = "AI Optimizer" -> 2
    [] module = "Compliance Simulator" -> 3
    [] OTHER -> 0

\* the records of seq carry the (module, name) pairs of the battery, in order
BatteryPrefix(seq) ==
  /\ Len(seq) <= NumCases
  /\ \A n \in DOMAIN seq :
       /\ seq[n].module = CaseNames[n].module
       /\ seq[n].name = CaseNames[n].name
  /\ \A m \in DOMAIN seq : \A n \in DOMAIN seq :
       m < n => /\ ModuleRank(seq[m].module) >= 1
                /\ ModuleRank(seq[m].module) <= ModuleRank(seq[n].module)
                /\ seq[m].name # seq[n].name

\* what the helper does with a condition, true or false: one more record with
\* passed = the condition and the serialized expected/actual, earlier records
\* untouched
RecordsEitherOutcome ==
  \A condition \in BOOLEAN :
    LET after == assert(results, "module", "name", condition, "expected", "actual")
    IN  /\ Len(after) = Len(results) + 1
        /\ SubSeq(after, 1, Len(results)) = results
        /\ after[Len(after)].passed = condition
        /\ after[Len(after)].expected = JSONStringify("expected")
        /\ after[Len(after)].actual = JSONStringify("actual")

HarnessRecords ==
  /\ tpc # 0 => Len(results) = tpc - 1 /\ BatteryPrefix(results)
  /\ runs > 0 => Len(returned) = 15 /\ BatteryPrefix(returned)
  /\ RecordsEitherOutcome

\* C14: every run of runAllTests terminates and returns the same fixed number
\* of records (15) with the same (module, name) pairs in the same order -
\* engine, optimizer, compliance cases - whatever the noise samples and
\* however many runs came before; an assertion, true or false, is recorded
\* with passed = its condition and its expected/actual values and the next
\* assertion follows.
C14_HarnessCompletes ==
  /\ []HarnessRecords
  /\ (tpc # 0) ~> (tpc = 0 /\ runs > 0 /\ Len(returned) = 15)

\* a second run has returned its 15 records after a loop whose last sample
\* was the highest one
C14_Witness ==
  /\ tpc = 0 /\ runs = 2
  /\ Len(returned) = 15
  /\ returned[1].name = "Basic Separation (D=1, R=1)"
  /\ returned[10].name = "Efficiency Bounds (0-1)"
  /\ returned[15].name = "Negative Input Safety"
  /\ i = LoopCount
  /\ sample = Q(9999, 10000)

----------------------------------------------------------------------------
(* C15 *)

\* C15: in every run of runAllTests, for every sequence of noise samples
\* drawn by the 50 stochastic optimizer calls, every record has passed = true
\* (the modal's allPassed holds).
C15_AllPassed ==
  /\ \A n \in DOMAIN results : results[n].passed = TRUE
  /\ \A n \in DOMAIN returned : returned[n].passed = TRUE
  /\ allPassed(returned)
  /\ inBounds = TRUE

\* a run has returned all 15 records, each passed, after 50 loop iterations
C15_Witness ==
  /\ tpc = 0 /\ runs >= 1
  /\ i = LoopCount
  /\ Len(returned) = 15
  /\ passedCount(returned) = 15
  /\ returned[10].actual = JSONStringify("Pass")

----------------------------------------------------------------------------
(* C16 *)

\* the result invocation id returns when it runs alone on its arguments (for
\* the optimizer: with the sample it drew)
Alone(id) ==
  LET a == calls[id].args
  IN  CASE calls[id].fn = "simulate_sx_stage" ->
             simulate_sx_stage(a.aq_in_conc, a.org_in_conc, a.phase_ratio, a.D_values)
        [] calls[id].fn = "prescriptive_setpoint_optimizer" ->
             prescriptive_setpoint_optimizer(a.current_pH, a.target_optimal_pH,
                                             a.deterministic, frame[id].random)
        [] calls[id].fn = "check_th_u_compliance" ->
             check_th_u_compliance(a.th_conc, a.u_conc, a.limit)

\* C16: when invocations of simulate, optimize and checkCompliance are
\* interleaved step by step, the per-species loop of simulate included, each
\* invocation returns exactly the result it returns when run alone, and the
\* maps an invocation writes are maps no other invocation holds.
C16_InterleavingHarmless ==
  /\ \A id \in Invocations : ret[id] # Null => ret[id] = Alone(id)
  /\ \A id \in Invocations : \A other \in Invocations :
       (/\ id # other
        /\ calls[id].fn = "simulate_sx_stage" /\ frame[id].pc # "entry"
        /\ calls[other].fn = "simulate_sx_stage" /\ frame[other].pc # "entry")
       => {frame[id].aqOut, frame[id].orgOut}
            \cap {frame[other].aqOut, frame[other].orgOut} = {}

\* invocation 2 (feed 100, D = 2.5, R = 2) was entered after invocation 1
\* (feed 10, D = 1, R = 1) and has returned 16.6667 / 41.6667 while
\* invocation 1 is still inside its loop, two species written
C16_Witness ==
  /\ calls[1].fn = "simulate_sx_stage" /\ calls[2].fn = "simulate_sx_stage"
  /\ calls[1].args.phase_ratio = Q(1, 1) /\ calls[2].args.phase_ratio = Q(2, 1)
  /\ frame[1].pc = "loop" /\ frame[1].k = 3
  /\ frame[2].pc = "done" /\ frame[2].aqOut > frame[1].aqOut
  /\ ret[2] # Null
  /\ ret[2].aqOut["Nd"] = Q(166667, 10000)
  /\ ret[2].orgOut["Nd"] = Q(416667, 10000)
  /\ heap[frame[1].aqOut]["Nd"] = Q(5, 1)

----------------------------------------------------------------------------
(* C22 *)

\* C22 (as stated): whenever is_compliant is true the reported total_conc_gl
\* is strictly less than the sanitized limit, and whenever it is false the
\* reported total is at least the limit
C22_TotalAgreesWithVerdict ==
  pc = "done" /\ compRes # Null =>
    /\ compRes.is_compliant =>
         Lt(compRes.total_conc_gl, SanitizedLimit(limit))
    /\ ~compRes.is_compliant =>
         Le(SanitizedLimit(limit), compRes.total_conc_gl)

\* C22 (amended): the verdict is taken on the unrounded total and the report
\* is that total rounded to 4 decimals, so a compliant result reports less
\* than limit + 0.00005 and a non-compliant one at least limit - 0.00005; for
\* a limit with at most 4 decimals a compliant result reports at most the
\* limit and a non-compliant one at least the limit
C22_TotalWithinHalfTick ==
  pc = "done" /\ compRes # Null =>
    LET lim == SanitizedLimit(limit)
        tot == compRes.total_conc_gl
    IN  /\ compRes.is_compliant =>
             /\ Lt(tot, Add(lim, HalfTick))
             /\ OnGrid4(lim) => Le(tot, lim)
        /\ ~compRes.is_compliant =>
             /\ Le(Sub(lim, HalfTick), tot)
             /\ OnGrid4(lim) => Le(lim, tot)

\* 0.09996 + 0 against the limit 0.1: compliant, and the report is 0.1
C22_Witness ==
  /\ pc = "done" /\ compRes # Null
  /\ th_conc = Q(2499, 25000) /\ u_conc = Zero /\ limit = Q(1, 10)
  /\ compRes.is_compliant
  /\ compRes.total_conc_gl = Q(1, 10)

----------------------------------------------------------------------------
(* C23 *)

\* x lies in the closed interval spanned by a and b
Between(x, a, b) ==
  \/ Le(a, x) /\ Le(x, b)
  \/ Le(b, x) /\ Le(x, a)

\* C23: for all current and target pH, new_pH_setpoint lies in the closed
\* interval between the sanitized current pH and the sanitized target pH
C23_NoOvershoot ==
  pc = "done" /\ optRes # Null =>
    Between(optRes.new_pH_setpoint,
            SanitizedCurrent(current_pH), SanitizedTarget(target_optimal_pH))

\* the same statement on finite arguments only
C23_NoOvershootFinite ==
  pc = "done" /\ optRes # Null /\ IsNum(current_pH)
    /\ IsNum(SanitizedTarget(target_optimal_pH)) => C23_NoOvershoot

\* the same statement on finite arguments with at most 2 decimals
C23_NoOvershootTwoDecimals ==
  pc = "done" /\ optRes # Null /\ IsNum(current_pH)
    /\ IsNum(SanitizedTarget(target_optimal_pH))
    /\ 100 % current_pH.d = 0
    /\ 100 % SanitizedTarget(target_optimal_pH).d = 0 => C23_NoOvershoot

----------------------------------------------------------------------------
(* C25 *)

\* the label of the result agrees with where the setpoint lies relative to c
LabelAgrees(c) ==
  /\ optRes.action = ActionRaise => Gt(optRes.new_pH_setpoint, c)
  /\ optRes.action = ActionLower => Lt(optRes.new_pH_setpoint, c)
  /\ optRes.action = ActionMaintain =>
       /\ IsNum(Sub(optRes.new_pH_setpoint, c))
       /\ Le(AbsQ(Sub(optRes.new_pH_setpoint, c)), Q(3, 200))

\* C25: the Raise label implies new_pH_setpoint > current pH, the Lower label
\* implies new_pH_setpoint < current pH, and "Maintain pH" implies that
\* new_pH_setpoint differs from the current pH by at most 0.015 (current pH
\* as sanitized by the function)
C25_ActionMatchesDirection ==
  pc = "done" /\ optRes # Null => LabelAgrees(SanitizedCurrent(current_pH))

\* the same statement on finite arguments only
C25_ActionMatchesDirectionFinite ==
  pc = "done" /\ optRes # Null /\ IsNum(SanitizedCurrent(current_pH))
    /\ IsNum(SanitizedTarget(target_optimal_pH)) => C25_ActionMatchesDirection

----------------------------------------------------------------------------
(* C24 *)

\* |target - c|
DistanceToTarget(c) == AbsQ(Sub(target_optimal_pH, c))

\* the distance to the target does not grow when the setpoint is fed back
DistanceNeverGrows ==
  [][Le(DistanceToTarget(current_pH'), DistanceToTarget(current_pH))]_vars

\* the last call answered "Maintain pH" with its input as setpoint, and the
\* input is at most 0.01 away from the target
Settled ==
  /\ optRes # Null
  /\ optRes.action = ActionMaintain
  /\ optRes.new_pH_setpoint = current_pH
  /\ Le(DistanceToTarget(current_pH), Q(1, 100))

\* C24: with the recommended setpoint fed back as the next current pH and a
\* fixed target (2-decimal values), the distance |target - current| never
\* increases from one step to the next, and after finitely many steps the
\* optimizer answers "Maintain pH" with a setpoint equal to its input, at
\* most 0.01 away from the target, and stays there
C24_ClosedLoopConverges == DistanceNeverGrows /\ <>[]Settled

\* started at 1.86 with target 1.74, the loop has come to rest at 1.75: the
\* call on 1.75 answers Maintain with setpoint 1.75, 0.01 above the target
C24_Witness ==
  /\ pc = "done" /\ Settled
  /\ target_optimal_pH = Q(87, 50)
  /\ current_pH = Q(7, 4)

----------------------------------------------------------------------------
(* C21 *)

\* the stored results all come from the inputs d
ComputedFrom(d) ==
  /\ simulationResults =
       simulate_sx_stage(d.aqIn, d.orgIn, d.phaseRatio, d.dValues)
  /\ complianceResults =
       check_th_u_compliance(simulationResults.aqOut["Th"],
                             simulationResults.aqOut["U"], d.regLimit)
  /\ \E random \in ExtremeSamples :
       optimizationResults =
         prescriptive_setpoint_optimizer(d.currentPH, d.targetPH, FALSE, random)

\* once the pipeline has run, the results are those of the current inputs;
\* before that they are all missing or all from the inputs of the last run
ResultsConsistent ==
  /\ ~effectPending => effectDeps = Deps /\ ComputedFrom(Deps)
  /\ effectPending =>
       IF effectDeps = Null
       THEN simulationResults = Null /\ complianceResults = Null
            /\ optimizationResults = Null
       ELSE ComputedFrom(effectDeps)

\* a change of an input makes the effect due
ChangeSchedulesEffect == [][Deps' # Deps => effectPending']_vars

\* C21: after any change of an input the pipeline is eventually re-run; once
\* it has run, simulationResults = simulate(current inputs), complianceResults
\* = checkCompliance(aqOut.Th, aqOut.U, regLimit) of that simulation result
\* and optimizationResults is an optimize(currentPH, targetPH) result; the
\* three are never computed from different input versions
C21_FullRecompute ==
  /\ []ResultsConsistent
  /\ ChangeSchedulesEffect
  /\ (effectPending ~> ~effectPending)

\* the Th feed was changed to 3 and the pipeline has run again: the stored
\* compliance result is the non-compliant one of the new simulation result
C21_Witness ==
  /\ ~effectPending /\ event = "runSimulation" /\ clock > 0
  /\ aqIn["Th"] = Q(3, 1)
  /\ simulationResults.aqOut["Th"] = Q(2727, 10000)
  /\ ~complianceResults.is_compliant

----------------------------------------------------------------------------
(* C26 *)

\* the step is a handled click on Capture Snapshot
SnapshotStep == clock' # clock /\ event' = "captureSnapshot"

ResultsMissing ==
  simulationResults = Null \/ complianceResults = Null \/ optimizationResults = Null

\* what a step may do to the history
HistoryStep ==
  /\ ~SnapshotStep => history' = history
  /\ SnapshotStep /\ ResultsMissing => history' = history
  /\ SnapshotStep /\ ~ResultsMissing =>
       /\ Len(history') = Len(history) + 1
       /\ Tail(history') = history
       /\ Head(history').inputs =
            [aqIn |-> aqIn, phaseRatio |-> phaseRatio,
             currentPH |-> currentPH, targetPH |-> targetPH]
       /\ Head(history').outputs =
            [th_u_total |-> complianceResults.total_conc_gl,
             is_compliant |-> complianceResults.is_compliant,
             efficiency |-> optimizationResults.predicted_efficiency]

\* C26: captureSnapshot does nothing while one of the three results is
\* missing; otherwise it puts exactly one entry at the head of the history,
\* holding the current aqIn, phaseRatio, currentPH, targetPH and the stored
\* compliance total, verdict and efficiency, and leaves the earlier entries
\* and their order unchanged; no other step changes the history
C26_HistoryAppendOnly == [][HistoryStep]_vars

\* two snapshots with a change of the Th feed in between: the newer entry
\* is first and the older one still holds the feed it was taken with
C26_Witness ==
  /\ event = "captureSnapshot" /\ Len(history) = 2
  /\ history[1].id > history[2].id
  /\ history[1].inputs.aqIn["Th"] = Q(3, 1)
  /\ history[2].inputs.aqIn["Th"] = Q(1, 10)
  /\ ~history[1].outputs.is_compliant /\ history[2].outputs.is_compliant

\* a click handled before the first run of the pipeline left the history empty
C26_WitnessMissing ==
  /\ event = "captureSnapshot" /\ clock = 1
  /\ ResultsMissing /\ history = <<>>

====
